---------------------------- MODULE Spec2Model ----------------------------
(***************************************************************************)
(* A model of the heuristic extraction engine of footwearscrape            *)
(* (src/parse_universal.py).                                               *)
(*                                                                         *)
(* Text is a sequence of characters, each character a one-element string;  *)
(* the non-ASCII code points the source uses are named by their code point *)
(* ("U+00E2").  Prices are integers in cents.  Python's None is None.      *)
(***************************************************************************)
EXTENDS Integers, Sequences, FiniteSets, TLC

None == -1

\* Python truthiness of an optional number: None and 0 are false.
Truthy(x) == x # None /\ x # 0

(***************************************************************************)
(* Characters and strings                                                  *)
(***************************************************************************)
Digits == <<"0","1","2","3","4","5","6","7","8","9">>

IsDigit(c) == \E d \in 1..10 : Digits[d] = c

DigitVal(c) == (CHOOSE d \in 1..10 : Digits[d] = c) - 1

UpperCase ==
    <<"A","B","C","D","E","F","G","H","I","J","K","L","M",
      "N","O","P","Q","R","S","T","U","V","W","X","Y","Z">>

LowerCase ==
    <<"a","b","c","d","e","f","g","h","i","j","k","l","m",
      "n","o","p","q","r","s","t","u","v","w","x","y","z">>

\* str.lower(), one character
LowerChar(c) ==
    IF \E i \in 1..26 : UpperCase[i] = c
    THEN LowerCase[CHOOSE i \in 1..26 : UpperCase[i] = c]
    ELSE c

\* str.lower()
Lower(t) == [i \in 1..Len(t) |-> LowerChar(t[i])]

IsSpace(c) == c = " "

\* the first position >= i of t that holds no whitespace (Len(t)+1 if none)
SkipSpace(t, i) ==
    IF \E j \in i..Len(t) : ~IsSpace(t[j])
    THEN CHOOSE j \in i..Len(t) :
            ~IsSpace(t[j]) /\ \A m \in i..(j-1) : IsSpace(t[m])
    ELSE Len(t) + 1

\* str.strip()
Strip(t) ==
    LET a == SkipSpace(t, 1)
    IN  IF a > Len(t) THEN <<>>
        ELSE LET b == CHOOSE j \in a..Len(t) :
                          ~IsSpace(t[j]) /\ \A m \in (j+1)..Len(t) : IsSpace(t[m])
             IN  SubSeq(t, a, b)

\* w occurs in t at position i
OccursAt(t, i, w) ==
    /\ i >= 1
    /\ i + Len(w) - 1 <= Len(t)
    /\ \A k \in 1..Len(w) : t[i + k - 1] = w[k]

\* Python's "w in t" on strings
Contains(t, w) == \E i \in 1..(Len(t) + 1) : OccursAt(t, i, w)

\* t[:n]
Take(t, n) == SubSeq(t, 1, IF Len(t) < n THEN Len(t) ELSE n)

Min(S) == CHOOSE x \in S : \A y \in S : x <= y

Max(S) == CHOOSE x \in S : \A y \in S : y <= x

Range(s) == {s[i] : i \in 1..Len(s)}

\* the currency literals as the source file spells them
DollarSign == <<"$">>

EuroLiteral == <<"U+00E2","U+201A","U+00AC">>

PoundLiteral == <<"U+00C2","U+00A3">>

USDLiteral == <<"U","S","D">>

(***************************************************************************)
(* Regular expressions of the shape                                        *)
(*    prefix \s* ( digits groups fraction ) \s* tail                        *)
(* where \s* after the prefix is present only when there is a prefix, and  *)
(* \s* before the tail only when there is a tail;                          *)
(*    digits   "1-4": \d{1,4}   "1-3": \d{1,3}   "1+": \d+                 *)
(*    groups   "*": (?:,\d{3})*   "1": ,\d{3}   "0": none                  *)
(*    frac     "req": \.\d{2}   "opt": (?:\.\d{2})?   "none": none         *)
(* The matcher backtracks as Python's re does: more digits first, then     *)
(* more groups, then the optional fraction taken.                          *)
(***************************************************************************)

DigitsAt(t, i, n) ==
    /\ i + n - 1 <= Len(t)
    /\ \A j \in i..(i + n - 1) : IsDigit(t[j])

GroupsAt(t, p, g) ==
    \A m \in 0..(g - 1) :
        /\ p + 4 * m <= Len(t)
        /\ t[p + 4 * m] = ","
        /\ DigitsAt(t, p + 4 * m + 1, 3)

FracAt(t, p) == p <= Len(t) /\ t[p] = "." /\ DigitsAt(t, p + 1, 2)

\* where the tail of pat ends when it is matched from position e, 0 if it is not
TailEnd(t, e, pat) ==
    IF pat.tail = <<>> THEN e
    ELSE LET j == SkipSpace(t, e)
         IN  IF OccursAt(t, j, pat.tail) THEN j + Len(pat.tail) ELSE 0

\* the ways the number of pat can be matched from position s, each with the rank
\* in which the backtracking matcher tries it (highest first)
Candidates(t, s, pat) ==
    LET ks == CASE pat.digits = "1-4" -> 1..4
                [] pat.digits = "1-3" -> 1..3
                [] pat.digits = "1+"  -> 1..Len(t)
        gs == CASE pat.groups = "*" -> 0..(Len(t) \div 4)
                [] pat.groups = "1" -> {1}
                [] pat.groups = "0" -> {0}
        fs == CASE pat.frac = "req"  -> {1}
                [] pat.frac = "opt"  -> {0, 1}
                [] pat.frac = "none" -> {0}
    IN  { c \in [k : ks, g : gs, f : fs] :
            /\ DigitsAt(t, s, c.k)
            /\ GroupsAt(t, s + c.k, c.g)
            /\ (c.f = 1 => FracAt(t, s + c.k + 4 * c.g))
            /\ TailEnd(t, s + c.k + 4 * c.g + 3 * c.f, pat) # 0 }

Rank(c) == c.k * 10000 + c.g * 10 + c.f

\* re.match of pat at position i: [ok, from, to (of the group), end (of the match)]
MatchAt(t, i, pat) ==
    IF ~OccursAt(t, i, pat.prefix)
    THEN [ok |-> FALSE, from |-> 0, to |-> 0, end |-> 0]
    ELSE LET s  == IF pat.prefix = <<>> THEN i
                   ELSE SkipSpace(t, i + Len(pat.prefix))
             cs == Candidates(t, s, pat)
         IN  IF cs = {}
             THEN [ok |-> FALSE, from |-> 0, to |-> 0, end |-> 0]
             ELSE LET c == CHOOSE x \in cs : \A y \in cs : Rank(y) <= Rank(x)
                      e == s + c.k + 4 * c.g + 3 * c.f
                  IN  [ok |-> TRUE, from |-> s, to |-> e - 1,
                       end |-> TailEnd(t, e, pat)]

\* re.findall(pat, t): the groups of the non-overlapping matches, left to right
RECURSIVE FindAllFrom(_, _, _)
FindAllFrom(t, i, pat) ==
    IF i > Len(t) THEN <<>>
    ELSE LET m == MatchAt(t, i, pat)
         IN  IF m.ok
             THEN <<SubSeq(t, m.from, m.to)>> \o FindAllFrom(t, m.end, pat)
             ELSE FindAllFrom(t, i + 1, pat)

FindAll(t, pat) == FindAllFrom(t, 1, pat)

\* Every number from Huge on is represented by Huge: all of them lie beyond any
\* price the program accepts, and the model's integers are 32 bits wide.
Huge == 1000000

RECURSIVE DigitsValue(_)
DigitsValue(ds) ==
    IF ds = <<>> THEN 0
    ELSE LET v == DigitsValue(SubSeq(ds, 1, Len(ds) - 1))
         IN  IF v >= Huge THEN Huge
             ELSE IF 10 * v + DigitVal(ds[Len(ds)]) >= Huge THEN Huge
             ELSE 10 * v + DigitVal(ds[Len(ds)])

\* float(match.replace(',', '').replace(' ', '')), in cents
ToPrice(match) ==
    LET s   == SelectSeq(match, LAMBDA c : c # "," /\ c # " ")
        dot == IF \E i \in 1..Len(s) : s[i] = "."
               THEN CHOOSE i \in 1..Len(s) : s[i] = "." ELSE Len(s) + 1
    IN  100 * DigitsValue(SubSeq(s, 1, dot - 1))
          + DigitsValue(SubSeq(s, dot + 1, Len(s)))

(***************************************************************************)
(* extract_price_bulletproof                                               *)
(***************************************************************************)
skip_indicators ==
    <<
      <<"o","f","f">>,
      <<"s","a","v","e">>,
      <<"d","i","s","c","o","u","n","t">>,
      <<"f","r","e","e">>,
      <<"s","h","i","p","p","i","n","g">>,
      <<"m","e","m","b","e","r">>,
      <<"e","m","p","l","o","y","e","e">>,
      <<"r","e","v","i","e","w">>,
      <<"r","a","t","i","n","g">>,
      <<"s","t","a","r">>,
      <<"s","o","l","d">>,
      <<"a","v","a","i","l","a","b","l","e">>,
      <<"s","t","o","c","k">>,
      <<"c","o","l","o","r">>,
      <<"s","i","z","e">>,
      <<"w","i","d","t","h">>,
      <<"l","e","n","g","t","h">>,
      <<"s","t","y","l","e">>
    >>

patterns ==
    <<
      [prefix |-> DollarSign,   digits |-> "1-4", groups |-> "*",
       frac |-> "req",  tail |-> <<>>],
      [prefix |-> DollarSign,   digits |-> "1-4", groups |-> "*",
       frac |-> "none", tail |-> <<>>],
      [prefix |-> <<>>,         digits |-> "1-4", groups |-> "*",
       frac |-> "req",  tail |-> DollarSign],
      [prefix |-> EuroLiteral,  digits |-> "1-4", groups |-> "*",
       frac |-> "opt",  tail |-> <<>>],
      [prefix |-> PoundLiteral, digits |-> "1-4", groups |-> "*",
       frac |-> "opt",  tail |-> <<>>],
      [prefix |-> <<>>,         digits |-> "1-4", groups |-> "*",
       frac |-> "req",  tail |-> USDLiteral]
    >>

\* the plausible footwear price range, in cents
MinPrice == 500

MaxPrice == 200000

\* 5 <= price <= 2000
InPriceRange(p) == MinPrice <= p /\ p <= MaxPrice

\* the first match of the list whose price is in range, None if there is none
RECURSIVE FirstInRange(_)
FirstInRange(matches) ==
    IF matches = <<>> THEN None
    ELSE IF InPriceRange(ToPrice(Head(matches))) THEN ToPrice(Head(matches))
    ELSE FirstInRange(Tail(matches))

\* the loop over the patterns, from pattern n on
RECURSIVE TryPatterns(_, _)
TryPatterns(t, n) ==
    IF n > Len(patterns) THEN None
    ELSE LET r == FirstInRange(FindAll(t, patterns[n]))
         IN  IF r # None THEN r ELSE TryPatterns(t, n + 1)

extract_price_bulletproof(text) ==
    IF text = <<>> THEN None
    ELSE LET t == Strip(text)
         IN  IF Contains(t, <<"%">>) /\ ~Contains(t, DollarSign) THEN None
             ELSE IF /\ LET text_lower == Lower(t)
                        IN  \E n \in 1..Len(skip_indicators) :
                                Contains(text_lower, skip_indicators[n])
                     /\ ~\E sym \in {DollarSign, EuroLiteral, PoundLiteral} :
                            Contains(t, sym)
                  THEN None
             ELSE TryPatterns(t, 1)

(***************************************************************************)
(* extract_site_promotions                                                 *)
(*                                                                         *)
(* A promotion string is a record: "Free Shipping: $<n>+" is               *)
(* [kind |-> "Free Shipping", n |-> <n>], "<n>% Off" is [kind |-> "Off",   *)
(* n |-> <n>], and the two fixed strings have n = <<>>.                    *)
(***************************************************************************)
IsWordChar(c) ==
    \/ IsDigit(c)
    \/ c = "_"
    \/ \E i \in 1..26 : UpperCase[i] = c \/ LowerCase[i] = c

\* the number of digits from position i on
DigitRun(t, i) ==
    IF i > Len(t) \/ ~IsDigit(t[i]) THEN 0
    ELSE CHOOSE n \in 1..(Len(t) - i + 1) :
            /\ DigitsAt(t, i, n)
            /\ (i + n > Len(t) \/ ~IsDigit(t[i + n]))

NoMatch == [ok |-> FALSE, from |-> 0, to |-> 0, end |-> 0]

SentenceEnd == {".", "!", "?", "\n"}

FreeShipWindow == 50

\* free\s+shipping[^.!?\n]{0,50}\$\s*(\d+), re.IGNORECASE, matched at position i
FreeShipAt(t, lt, i) ==
    LET a  == i + 4
        b  == SkipSpace(t, a)
        p  == b + 8
        js == { j \in p..Len(t) :
                  /\ j - p <= FreeShipWindow
                  /\ \A m \in p..(j - 1) : t[m] \notin SentenceEnd
                  /\ t[j] = "$"
                  /\ DigitRun(t, SkipSpace(t, j + 1)) > 0 }
    IN  IF /\ OccursAt(lt, i, <<"f","r","e","e">>)
           /\ b > a
           /\ OccursAt(lt, b, <<"s","h","i","p","p","i","n","g">>)
           /\ js # {}
        THEN LET j == Max(js)
                 d == SkipSpace(t, j + 1)
                 n == DigitRun(t, d)
             IN  [ok |-> TRUE, from |-> d, to |-> d + n - 1, end |-> d + n]
        ELSE NoMatch

\* (\d+)%\s*off, re.IGNORECASE, matched at position i
PercentAt(t, lt, i) ==
    LET n == DigitRun(t, i)
        q == i + n
    IN  IF /\ n > 0
           /\ q <= Len(t)
           /\ t[q] = "%"
           /\ OccursAt(lt, SkipSpace(t, q + 1), <<"o","f","f">>)
        THEN [ok |-> TRUE, from |-> i, to |-> q - 1,
              end |-> SkipSpace(t, q + 1) + 3]
        ELSE NoMatch

\* re.findall of one of the two patterns: the groups, left to right; lt is the
\* lower-cased text, which re.IGNORECASE compares with
RECURSIVE FindPromoFrom(_, _, _, _)
FindPromoFrom(t, lt, i, which) ==
    IF i > Len(t) THEN <<>>
    ELSE LET m == IF which = "free_ship" THEN FreeShipAt(t, lt, i)
                  ELSE PercentAt(t, lt, i)
         IN  IF m.ok
             THEN <<SubSeq(t, m.from, m.to)>> \o FindPromoFrom(t, lt, m.end, which)
             ELSE FindPromoFrom(t, lt, i + 1, which)

FindPromo(t, which) == FindPromoFrom(t, Lower(t), 1, which)

\* a search for clearance that finds it in every document
AlwaysClearance(t) == TRUE

\* re.search(r'\bclearance\b', html_content, re.IGNORECASE)
HasClearance(t) ==
    LET lt == Lower(t)
    IN  \E i \in 1..Len(t) :
            /\ OccursAt(lt, i, <<"c","l","e","a","r","a","n","c","e">>)
            /\ (i = 1 \/ ~IsWordChar(t[i - 1]))
            /\ (i + 9 > Len(t) \/ ~IsWordChar(t[i + 9]))

\* re.search(r'select\s+styles', html_content, re.IGNORECASE)
HasSelectStyles(t) ==
    LET lt == Lower(t)
    IN  \E i \in 1..Len(t) :
            /\ OccursAt(lt, i, <<"s","e","l","e","c","t">>)
            /\ SkipSpace(t, i + 6) > i + 6
            /\ OccursAt(lt, SkipSpace(t, i + 6), <<"s","t","y","l","e","s">>)

\* a < b as Python compares strings: character by character, a prefix first
StrLess(a, b) ==
    \E k \in 1..(Len(b)) :
        /\ \A m \in 1..(k - 1) : m <= Len(a) /\ a[m] = b[m]
        /\ \/ k > Len(a)
           \/ DigitVal(a[k]) < DigitVal(b[k])

\* sorted(S, reverse=True) of a set of digit strings
RECURSIVE SortedReverse(_)
SortedReverse(S) ==
    IF S = {} THEN <<>>
    ELSE LET top == CHOOSE x \in S : \A y \in S \ {x} : StrLess(y, x)
         IN  <<top>> \o SortedReverse(S \ {top})

\* the orders in which iterating over set(matches) can yield its elements
Orderings(S) ==
    { o \in [1..Cardinality(S) -> S] : \A x \in S : \E k \in 1..Cardinality(S) : o[k] = x }

TopPercents == 3

MaxPromotions == 10

\* extract_site_promotions(html_content), with the set of free shipping amounts
\* iterated in the order ship_order
extract_site_promotions(html_content, ship_order) ==
    LET ship     == [k \in 1..Len(ship_order) |->
                        [kind |-> "Free Shipping", n |-> ship_order[k]]]
        matches  == FindPromo(html_content, "percent")
        unique   == SortedReverse(Range(matches))
        percents == [k \in 1..Len(Take(unique, TopPercents)) |->
                        [kind |-> "Off", n |-> unique[k]]]
        clear    == IF HasClearance(html_content)
                    THEN << [kind |-> "Clearance Available", n |-> <<>>] >> ELSE <<>>
        styles   == IF HasSelectStyles(html_content)
                    THEN << [kind |-> "Sale on Select Styles", n |-> <<>>] >> ELSE <<>>
    IN  Take(ship \o percents \o clear \o styles, MaxPromotions)

\* the iteration orders of set(matches) of the free shipping pattern
ShipOrders(html_content) == Orderings(Range(FindPromo(html_content, "free_ship")))

(***************************************************************************)
(* is_promotional_text                                                     *)
(***************************************************************************)
\* word \s* \$? \d+ found in the lower-cased text t
WordThenAmount(t, word) ==
    \E i \in 1..Len(t) :
        /\ OccursAt(t, i, word)
        /\ LET j == SkipSpace(t, i + Len(word))
               d == IF j <= Len(t) /\ t[j] = "$" THEN j + 1 ELSE j
           IN  DigitRun(t, d) > 0

\* \d+ \s* off found in t from a digit at position d
AmountThenOff(t, d) ==
    /\ DigitRun(t, d) > 0
    /\ OccursAt(t, SkipSpace(t, d + DigitRun(t, d)), <<"o","f","f">>)

is_promotional_text(txt) ==
    IF txt = <<>> THEN FALSE
    ELSE LET t == Strip(Lower(txt))
         IN  \/ \E i \in 1..Len(t) : t[i] = "$" /\ AmountThenOff(t, i + 1)
             \/ \E i \in 1..Len(t) : AmountThenOff(t, i)
             \/ WordThenAmount(t, <<"s","a","v","e">>)
             \/ WordThenAmount(t, <<"e","x","t","r","a">>)
             \/ \E i \in 1..Len(t) :
                   /\ OccursAt(t, i, <<"l","i","m","i","t","e","d">>)
                   /\ OccursAt(t, SkipSpace(t, i + 7), <<"t","i","m","e">>)
             \/ WordThenAmount(t, <<"d","i","s","c","o","u","n","t">>)
             \/ WordThenAmount(t, <<"m","e","m","b","e","r">>)
             \/ \E i \in 1..Len(t) :
                   /\ OccursAt(t, i, <<"g","e","t">>)
                   /\ LET j == SkipSpace(t, i + 3)
                          d == IF j <= Len(t) /\ t[j] = "$" THEN j + 1 ELSE j
                      IN  AmountThenOff(t, d)

(***************************************************************************)
(* calculate_discount and the formatting of the record fields              *)
(***************************************************************************)
NA == <<"N","/","A">>

\* the 'Category' of every record
Footwear == <<"F","o","o","t","w","e","a","r">>

\* str(n) of a natural number
RECURSIVE DigitsOf(_)
DigitsOf(n) ==
    IF n < 10 THEN <<Digits[n + 1]>>
    ELSE Append(DigitsOf(n \div 10), Digits[(n % 10) + 1])

\* f"${p:.2f}" of a price in cents
FormatPrice(p) ==
    <<"$">> \o DigitsOf(p \div 100) \o <<".", Digits[((p \div 10) % 10) + 1], Digits[(p % 10) + 1]>>

\* the share of the sale price in the original price, in tenths of a percent
SaleShare(original, sale) == (2000 * sale + original) \div (2 * original)

\* ((original - sale) / original) * 100 to one decimal, in tenths of a percent
\* (nearest; at an exact half the binary float decides, and on the amounts
\* this model draws it falls on the even side, as for 2000.00 and 75.00,
\* which give 96.2)
DiscountTenths(original, sale) ==
    LET twice == 2000 * (original - sale)
        down  == twice \div (2 * original)
        rest  == twice % (2 * original)
    IN  IF rest > original \/ (rest = original /\ down % 2 = 1)
        THEN down + 1
        ELSE down

\* f"{discount:.1f}%"
FormatPercent(tenths) ==
    DigitsOf(tenths \div 10) \o <<".", Digits[(tenths % 10) + 1], "%">>

calculate_discount(original, sale) ==
    IF Truthy(original) /\ Truthy(sale) /\ original > sale /\ sale > 0
    THEN FormatPercent(DiscountTenths(original, sale))
    ELSE NA

(***************************************************************************)
(* find_prices_bulletproof                                                 *)
(*                                                                         *)
(* Of a container the locator reads                                        *)
(*   strike   the texts of strikethrough_elements, in the order of the     *)
(*            list                                                         *)
(*   cands    the elements step 2 looks at, in the order it finds them,    *)
(*            each with its text, how it was found ("class", "data" or     *)
(*            "tag") and whether it is struck: one of                      *)
(*            strikethrough_elements or a child of one, a del, s or strike *)
(*            tag, or styled line-through                                  *)
(***************************************************************************)
PriceTag(t, how, struck) == [text |-> t, how |-> how, struck |-> struck]

MaxPriceTextLen == 100

HasCurrencyMarker(t) ==
    \/ Contains(t, DollarSign)
    \/ Contains(t, EuroLiteral)
    \/ Contains(t, PoundLiteral)
    \/ Contains(t, USDLiteral)

\* step 1 finding no strikethrough price at all
NoStruckPrice(texts) == None

\* the first price the texts yield, None if none does
RECURSIVE FirstPrice(_)
FirstPrice(texts) ==
    IF texts = <<>> THEN None
    ELSE LET p == extract_price_bulletproof(Head(texts))
         IN  IF Truthy(p) THEN p ELSE FirstPrice(Tail(texts))

\* price_elements: what is found by class or by attribute, and of what is found
\* by tag the short texts with a currency marker that are no promotion
PriceElements(cands) ==
    SelectSeq(cands, LAMBDA c :
        \/ c.how \in {"class", "data"}
        \/ /\ ~is_promotional_text(Strip(c.text))
           /\ HasCurrencyMarker(Strip(c.text))
           /\ Len(Strip(c.text)) < MaxPriceTextLen)

\* all_prices: the distinct prices of the elements that are neither struck nor a
\* promotion, in the order they are met
RECURSIVE AllPrices(_, _)
AllPrices(elems, found) ==
    IF elems = <<>> THEN found
    ELSE LET c == Head(elems)
             p == extract_price_bulletproof(Strip(c.text))
         IN  IF c.struck \/ is_promotional_text(Strip(c.text))
             THEN AllPrices(Tail(elems), found)
             ELSE IF Truthy(p) /\ p \notin Range(found)
                  THEN AllPrices(Tail(elems), Append(found, p))
                  ELSE AllPrices(Tail(elems), found)

\* step 3 without min, max and sort: the prices in the order they were met
ResolveInOrder(original_price, all_prices) ==
    IF Truthy(original_price)
    THEN IF all_prices # <<>>
         THEN <<original_price, all_prices[1]>>
         ELSE <<None, original_price>>
    ELSE IF Len(all_prices) >= 2
         THEN <<all_prices[Len(all_prices)], all_prices[1]>>
         ELSE IF Len(all_prices) = 1
              THEN <<None, all_prices[1]>>
              ELSE <<None, None>>

\* step 3: the pair <<original_price, sale_price>>
ResolvePrices(original_price, all_prices) ==
    IF Truthy(original_price)
    THEN IF all_prices # <<>>
         THEN <<original_price, Min(Range(all_prices))>>
         ELSE <<None, original_price>>
    ELSE IF Len(all_prices) >= 2
         THEN <<Max(Range(all_prices)), Min(Range(all_prices))>>
         ELSE IF Len(all_prices) = 1
              THEN <<None, all_prices[1]>>
              ELSE <<None, None>>

\* steps 1 and 2 leave original_price and all_prices, step 3 resolves them
find_prices_bulletproof(container) ==
    CHOOSE pair \in
        { ResolvePrices(original_price, all_prices) :
            original_price \in { FirstPrice(container.strike) },
            all_prices \in { AllPrices(elems, <<>>) :
                               elems \in { PriceElements(container.cands) } } } : TRUE

(***************************************************************************)
(* Elements                                                                *)
(*                                                                         *)
(* An element of the document is a record of what the engine reads of it:  *)
(*   tag                  its tag name                                     *)
(*   cls, id, data        the product keywords that occur in its class     *)
(*                        list, its id, and its data-* attribute values    *)
(*   a_href, img          it has a descendant anchor with href, an image   *)
(*   currency, long       its text holds a currency marker; its stripped   *)
(*                        text is longer than 5 characters                 *)
(*   fault                the call that raises when this element is        *)
(*                        evaluated: "none", "score", "name", "link" or    *)
(*                        "prices"                                         *)
(* and of the fields the field locators and the fallback read, described   *)
(* with them below.                                                        *)
(***************************************************************************)
product_keywords == {"product", "item", "card", "tile"}

EligibleTags == {"div", "article", "li", "section", "a"}

score_as_product_container(element) ==
    IF element.tag \notin EligibleTags THEN 0
    ELSE 3 * Cardinality(element.cls \cap product_keywords)
           + 2 * Cardinality(element.id \cap product_keywords)
           + 2 * Cardinality(element.data \cap product_keywords)
           + (IF element.a_href THEN 2 ELSE 0)
           + (IF element.img THEN 1 ELSE 0)
           + (IF element.currency THEN 3 ELSE 0)
           + (IF element.long THEN 1 ELSE 0)

(***************************************************************************)
(* The source URL: a record of its scheme, its network location and its    *)
(* path, all empty for the empty string                                    *)
(***************************************************************************)
NoUrl == [scheme |-> <<>>, netloc |-> <<>>, path |-> <<>>]

\* get_domain(url)
get_domain(url) ==
    LET domain == Lower(url.netloc)
    IN  IF OccursAt(domain, 1, <<"w","w","w",".">>)
        THEN SubSeq(domain, 5, Len(domain)) ELSE domain

\* base_url of parse_products_universal
BaseUrl(url) ==
    IF url = NoUrl THEN <<>> ELSE url.scheme \o <<":","/","/">> \o url.netloc

\* urljoin(base_url, href) for the absolute paths ("/...") the model's hrefs are
UrlJoin(base_url, href) == base_url \o href

\* s.split(sep)[0]
FirstPart(t, sep) ==
    IF \E k \in 1..Len(t) : t[k] = sep
    THEN SubSeq(t, 1, (CHOOSE k \in 1..Len(t) :
                          t[k] = sep /\ \A m \in 1..(k - 1) : t[m] # sep) - 1)
    ELSE t

UpperChar(c) ==
    IF \E k \in 1..26 : LowerCase[k] = c
    THEN UpperCase[CHOOSE k \in 1..26 : LowerCase[k] = c]
    ELSE c

IsLetter(c) == \E k \in 1..26 : UpperCase[k] = c \/ LowerCase[k] = c

\* str.upper()
Upper(t) == [k \in 1..Len(t) |-> UpperChar(t[k])]

\* str.title(): a letter after a non-letter in upper case, the others in lower
Title(t) ==
    [k \in 1..Len(t) |->
        IF k = 1 \/ ~IsLetter(t[k - 1]) THEN UpperChar(t[k]) ELSE LowerChar(t[k])]

\* the 'Brand' field
Brand(url) ==
    IF get_domain(url) # <<>> THEN Title(FirstPart(get_domain(url), ".")) ELSE NA

(***************************************************************************)
(* The name of a record                                                    *)
(*                                                                         *)
(* Of a container the orchestrator reads name, the text find_product_name  *)
(* returns (<<>> when it finds none), link, the href find_product_link     *)
(* picks (<<>> when it finds none), and the verdicts of the two name       *)
(* filters on that name, name_invalid and name_non_footwear.               *)
(***************************************************************************)
NameKeyLen == 100

MinNameLen == 5

\* name.lower().strip()[:100]
NameKey(name) == Take(Strip(Lower(name)), NameKeyLen)

(***************************************************************************)
(* extract_products_from_price_patterns, one anchor                        *)
(*                                                                         *)
(* Of an anchor the fallback reads href (<<>> stands for no href           *)
(* attribute), parent_text, the text of its parent, link_text, its own     *)
(* text, and headings, the texts of the first h2, h3 and h4 of its parent. *)
(***************************************************************************)
skip_hrefs ==
    { <<"c","a","r","t">>, <<"c","h","e","c","k","o","u","t">>,
      <<"a","c","c","o","u","n","t">>, <<"l","o","g","i","n">>,
      <<"j","a","v","a","s","c","r","i","p","t",":">>, <<"#">> }

SkippedHref(href) == \E w \in skip_hrefs : Contains(Lower(href), w)

price_patterns ==
    <<
      [prefix |-> <<>>,       digits |-> "1+",  groups |-> "0",
       frac |-> "req", tail |-> USDLiteral],
      [prefix |-> DollarSign, digits |-> "1+",  groups |-> "0",
       frac |-> "req", tail |-> <<>>],
      [prefix |-> <<>>,       digits |-> "1-3", groups |-> "1",
       frac |-> "req", tail |-> <<>>]
    >>

\* 5 < price < 2000
InFallbackRange(p) == MinPrice < p /\ p < MaxPrice

\* prices: the in-range matches of every pattern, pattern after pattern
RECURSIVE FallbackPrices(_, _)
FallbackPrices(container_text, n) ==
    IF n > Len(price_patterns) THEN <<>>
    ELSE LET matches == FindAll(container_text, price_patterns[n])
         IN  SelectSeq([k \in 1..Len(matches) |-> ToPrice(matches[k])],
                       InFallbackRange)
               \o FallbackPrices(container_text, n + 1)

\* tuple(sorted(prices))
RECURSIVE Sorted(_)
Sorted(q) ==
    IF q = <<>> THEN <<>>
    ELSE LET k == CHOOSE k \in 1..Len(q) : \A m \in 1..Len(q) : q[k] <= q[m]
         IN  <<q[k]>> \o Sorted(SubSeq(q, 1, k - 1) \o SubSeq(q, k + 1, Len(q)))

\* re.match(r'^\$?\d+\.?\d*', link_text)
StartsWithNumber(t) ==
    \/ Len(t) >= 1 /\ IsDigit(t[1])
    \/ Len(t) >= 2 /\ t[1] = "$" /\ IsDigit(t[2])

\* s.split(sep)
RECURSIVE Split(_, _)
Split(t, sep) ==
    IF \E k \in 1..Len(t) : t[k] = sep
    THEN <<FirstPart(t, sep)>> \o Split(SubSeq(t, Len(FirstPart(t, sep)) + 2, Len(t)), sep)
    ELSE <<t>>

\* s.rstrip('/')
RECURSIVE RStripSlash(_)
RStripSlash(t) ==
    IF t # <<>> /\ t[Len(t)] = "/" THEN RStripSlash(SubSeq(t, 1, Len(t) - 1)) ELSE t

\* part.replace('-', ' ').replace('_', ' ').title()
PartTitle(part) ==
    Title([k \in 1..Len(part) |-> IF part[k] \in {"-", "_"} THEN " " ELSE part[k]])

\* the loop over reversed(path_parts), from part n down, with the name so far
RECURSIVE PathName(_, _, _)
PathName(parts, n, name) ==
    IF n = 0 THEN name
    ELSE IF parts[n] # <<>> /\ Len(parts[n]) > 3 /\ parts[n][1] # "?"
         THEN IF Len(PartTitle(parts[n])) > 10 THEN PartTitle(parts[n])
              ELSE PathName(parts, n - 1, PartTitle(parts[n]))
         ELSE PathName(parts, n - 1, name)

\* the first heading text of acceptable length, <<>> if none
RECURSIVE HeadingName(_)
HeadingName(headings) ==
    IF headings = <<>> THEN <<>>
    ELSE IF 5 < Len(Head(headings)) /\ Len(Head(headings)) < 100
         THEN Head(headings)
         ELSE HeadingName(Tail(headings))

\* the name of the fallback record of anchor link with sale price sale_price;
\* url is the source URL, of which the fallback is handed the base
FallbackName(link, sale_price, url) ==
    LET link_text == Strip(link.link_text)
        n1 == IF /\ 5 < Len(link_text) /\ Len(link_text) < 200
                 /\ ~StartsWithNumber(link_text)
              THEN link_text ELSE <<>>
        n2 == IF n1 = <<>> /\ link.href # <<>>
              THEN LET parts == Split(RStripSlash(link.href), "/")
                   IN  PathName(parts, Len(parts), <<>>)
              ELSE n1
        n3 == IF n2 = <<>> THEN HeadingName(link.headings) ELSE n2
        domain == get_domain(url)
        brand == IF domain # <<>> THEN Upper(FirstPart(domain, "."))
                 ELSE <<"P","r","o","d","u","c","t">>
    IN  IF n3 = <<>> \/ Len(n3) < 5
        THEN brand \o <<" ","F","o","o","t","w","e","a","r"," ","-"," ">>
                   \o FormatPrice(sale_price)
        ELSE n3

\* the record the fallback appends for anchor link with the prices found
FallbackProduct(link, prices, url) ==
    LET sale_price     == IF Len(prices) >= 2 THEN Sorted(prices)[1] ELSE prices[1]
        original_price == IF Len(prices) >= 2 THEN Sorted(prices)[Len(prices)] ELSE None
    IN  [name     |-> FallbackName(link, sale_price, url),
         url      |-> IF link.href # <<>> THEN UrlJoin(BaseUrl(url), link.href) ELSE NA,
         original |-> IF Truthy(original_price) THEN FormatPrice(original_price) ELSE NA,
         sale     |-> FormatPrice(sale_price),
         discount |-> calculate_discount(original_price, sale_price),
         brand    |-> Brand(url),
         category |-> Footwear]

(***************************************************************************)
(* Container selection: sc is the sequence of the scores of all_elements,  *)
(* in document order; an element is named by its position in it.           *)
(***************************************************************************)
MinScore == 5

TopContainers == 300

\* scored_elements before the sort: the candidates, in document order
ScoredElements(sc) ==
    SelectSeq([k \in 1..Len(sc) |-> k], LAMBDA k : sc[k] >= MinScore)

Reverse(q) == [k \in 1..Len(q) |-> q[Len(q) + 1 - k]]

\* a sort that is descending but turns the order of elements of equal score
\* around, as sorting ascending and reversing the list does
RECURSIVE SortThenReverse(_, _)
SortThenReverse(elems, sc) ==
    IF elems = <<>> THEN <<>>
    ELSE LET top == Max({ sc[elems[k]] : k \in 1..Len(elems) })
         IN  Reverse(SelectSeq(elems, LAMBDA e : sc[e] = top))
               \o SortThenReverse(SelectSeq(elems, LAMBDA e : sc[e] # top), sc)

\* list.sort(reverse=True, key=score): descending, and stable, so that elements
\* of equal score keep the order they had
RECURSIVE SortReverse(_, _)
SortReverse(elems, sc) ==
    IF elems = <<>> THEN <<>>
    ELSE LET top == Max({ sc[elems[k]] : k \in 1..Len(elems) })
         IN  SelectSeq(elems, LAMBDA e : sc[e] = top)
               \o SortReverse(SelectSeq(elems, LAMBDA e : sc[e] # top), sc)

\* the first TopContainers candidates as the document has them, unsorted
InDocumentOrder(sc) == Take(ScoredElements(sc), TopContainers)

\* scored_elements.sort(reverse=True, ...) and the slice [:300]
ProductContainers(sc) == Take(SortReverse(ScoredElements(sc), sc), TopContainers)

(***************************************************************************)
(* State                                                                   *)
(*   pc     the position of the call being run                             *)
(*   text   the argument of a call of extract_price_bulletproof            *)
(*   price  what that call returned                                        *)
(*   html   the document: elems, its elements as BeautifulSoup yields them  *)
(*          in document order, and raw, its characters as the regular      *)
(*          expressions of the promotion scanner read them                 *)
(*   source_url          the second argument of parse_products_universal   *)
(*   scores              the score of each element of all_elements         *)
(*   product_containers  the elements promoted to field extraction         *)
(*   i                   the position of the extraction loop in them       *)
(*   products, seen_names, filtered_count, products_with_prices            *)
(*                       the locals of parse_products_universal            *)
(*   link_index, fb_products, seen_prices                                  *)
(*                       the position of the fallback's loop in all_links, *)
(*                       and its locals products and seen_prices           *)
(*   site_promotions     what extract_site_promotions returned             *)
(*   args, result        the arguments and the result of a function of the *)
(*                       module that is called on its own                  *)
(* and, recording what has happened,                                       *)
(*   origin              for each record of products, the element it was   *)
(*                       made from                                         *)
(*   fb_origin           for each record of fb_products, the place in      *)
(*                       all_links of the anchor it was made from          *)
(*   structural          the records the structural pass ended with        *)
(*   fallback_calls, promo_calls                                           *)
(*                       how often extract_products_from_price_patterns    *)
(*                       and extract_site_promotions have been called      *)
(***************************************************************************)
VARIABLES pc, text, price, html, source_url, scores, product_containers, i,
          products, seen_names, filtered_count, products_with_prices,
          link_index, fb_products, seen_prices, site_promotions,
          args, result, origin, fb_origin, structural, fallback_calls,
          promo_calls,
          driver, all_html, pages_scraped, page_num, attempt, next_page_found,
          outcome, quits

priceVars == <<text, price>>

docVars == <<html, source_url>>

callVars == <<args, result>>

scanVars == <<scores, product_containers>>

loopVars == <<i, products, seen_names, filtered_count, products_with_prices, origin>>

fallbackVars == <<link_index, fb_products, seen_prices, fb_origin>>

historyVars == <<structural, fallback_calls, promo_calls>>

\* scrape_website: the browser ("none" before it is created, "open", "quit"),
\* the locals all_html (the pages captured, each named by its number),
\* pages_scraped, page_num, attempt and next_page_found, and for the record
\* the outcome of the last page load and the number of calls of driver.quit
scrapeVars == <<driver, all_html, pages_scraped, page_num, attempt,
                next_page_found, outcome, quits>>

vars == <<pc, priceVars, docVars, callVars, scrapeVars, scanVars, loopVars,
          fallbackVars, site_promotions, historyVars>>

\* scrape_website has not been called
NoScrape ==
    /\ driver = "none"
    /\ all_html = <<>>
    /\ pages_scraped = 0
    /\ page_num = 0
    /\ attempt = 0
    /\ next_page_found = FALSE
    /\ outcome = "none"
    /\ quits = 0

\* the locals of a call of parse_products_universal that has not begun
Idle ==
    /\ scores = <<>>
    /\ product_containers = <<>>
    /\ i = 1
    /\ products = <<>>
    /\ seen_names = {}
    /\ filtered_count = 0
    /\ products_with_prices = 0
    /\ origin = <<>>
    /\ link_index = 1
    /\ fb_products = <<>>
    /\ seen_prices = {}
    /\ fb_origin = <<>>
    /\ site_promotions = <<>>
    /\ structural = <<>>
    /\ fallback_calls = 0
    /\ promo_calls = 0

EmptyHtml == [elems |-> <<>>, raw |-> <<>>]

(***************************************************************************)
(* Calls of extract_price_bulletproof on texts put together from pieces    *)
(***************************************************************************)
MaxPieces == 3

Pieces ==
    { <<"$">>, <<"5">>, <<"1","2","3","4">>, <<"1","2","3","4","5">>,
      <<"2","0","0","0">>, <<".","0","0">>, <<".","5","0">>, <<",","0","0","0">>,
      <<" ">>, USDLiteral, <<"%">> }

RECURSIVE TextsOf(_)
TextsOf(n) ==
    IF n = 0 THEN { <<>> }
    ELSE LET shorter == TextsOf(n - 1)
         IN  shorter \cup { s \o p : s \in shorter, p \in Pieces }

InitPrice ==
    /\ pc = "price_call"
    /\ text \in TextsOf(MaxPieces)
    /\ price = None
    /\ html = EmptyHtml
    /\ source_url = NoUrl
    /\ Idle
    /\ args = <<>>
    /\ result = None
    /\ NoScrape

PriceReturn ==
    /\ pc = "price_call"
    /\ price' = extract_price_bulletproof(text)
    /\ pc' = "price_done"
    /\ UNCHANGED <<text, docVars, callVars, scrapeVars, scanVars, loopVars, fallbackVars,
                   site_promotions, historyVars>>

NextPrice == PriceReturn

SpecPrice == InitPrice /\ [][NextPrice]_vars

(***************************************************************************)
(* Calls of extract_price_bulletproof on texts with the currency signs as  *)
(* a page has them: the euro sign is U+20AC and the pound sign U+00A3      *)
(***************************************************************************)
EuroSign == <<"U+20AC">>

PoundSign == <<"U+00A3">>

MaxCurrencyPieces == 3

CurrencyPieces ==
    { DollarSign, EuroSign, PoundSign, EuroLiteral, PoundLiteral,
      <<"1","9",".","9","9">>, <<" ">> \o USDLiteral,
      <<" ","s","a","v","e"," ">>, <<" ","1","0","%">> }

RECURSIVE CurrencyTexts(_)
CurrencyTexts(n) ==
    IF n = 0 THEN { <<>> }
    ELSE LET shorter == CurrencyTexts(n - 1)
         IN  shorter \cup { s \o p : s \in shorter, p \in CurrencyPieces }

InitCurrency ==
    /\ pc = "price_call"
    /\ text \in CurrencyTexts(MaxCurrencyPieces)
    /\ price = None
    /\ html = EmptyHtml
    /\ source_url = NoUrl
    /\ Idle
    /\ args = <<>>
    /\ result = None
    /\ NoScrape

SpecCurrency == InitCurrency /\ [][NextPrice]_vars

(***************************************************************************)
(* Calls of calculate_discount on pairs of optional prices                 *)
(***************************************************************************)
Amounts == {None, 0, 1, 500, 5999, 7500, 8999, 10000, 12000, 200000}

InitDiscount ==
    /\ pc = "discount_call"
    /\ args \in [original : Amounts, sale : Amounts]
    /\ result = None
    /\ NoScrape
    /\ text = <<>>
    /\ price = None
    /\ html = EmptyHtml
    /\ source_url = NoUrl
    /\ Idle

DiscountReturn ==
    /\ pc = "discount_call"
    /\ result' = calculate_discount(args.original, args.sale)
    /\ pc' = "discount_done"
    /\ UNCHANGED <<priceVars, docVars, args, scrapeVars, scanVars, loopVars, fallbackVars,
                   site_promotions, historyVars>>

NextDiscount == DiscountReturn

SpecDiscount == InitDiscount /\ [][NextDiscount]_vars

(***************************************************************************)
(* Calls of find_prices_bulletproof on containers put together from        *)
(* strikethrough texts and price elements                                  *)
(***************************************************************************)
StrikeLists ==
    { <<>>,
      << <<"$","8","9",".","9","9">> >>,
      << <<"S","a","l","e">>, <<"$","1","2","0",".","0","0">> >> }

PriceCands ==
    { PriceTag(<<"$","5","9",".","9","9">>, "class", FALSE),
      PriceTag(<<" ","$","5","9",".","9","9"," ">>, "tag", FALSE),
      PriceTag(<<"$","8","9",".","9","9">>, "data", FALSE),
      PriceTag(<<"$","8","9",".","9","9">>, "class", TRUE),
      PriceTag(<<"$","1","2","0",".","0","0">>, "tag", FALSE),
      PriceTag(<<"$","4","0",".","0","0">>, "tag", TRUE),
      PriceTag(<<"$","1","0"," ","O","f","f">>, "class", FALSE),
      PriceTag(<<"S","a","v","e"," ","$","2","0">>, "tag", FALSE),
      PriceTag(<<"2","5",".","0","0">>, "tag", FALSE),
      PriceTag(<<"I","n"," ","s","t","o","c","k">>, "class", FALSE) }

MaxCands == 2

CandLists(n) == UNION { [1..k -> PriceCands] : k \in 0..n }

InitFindPrices ==
    /\ pc = "prices_call"
    /\ args \in [strike : StrikeLists, cands : CandLists(MaxCands)]
    /\ result = None
    /\ NoScrape
    /\ text = <<>>
    /\ price = None
    /\ html = EmptyHtml
    /\ source_url = NoUrl
    /\ Idle

FindPricesReturn ==
    /\ pc = "prices_call"
    /\ result' = find_prices_bulletproof(args)
    /\ pc' = "prices_done"
    /\ UNCHANGED <<priceVars, docVars, args, scrapeVars, scanVars, loopVars, fallbackVars,
                   site_promotions, historyVars>>

NextFindPrices == FindPricesReturn

SpecFindPrices == InitFindPrices /\ [][NextFindPrices]_vars

(***************************************************************************)
(* Calls of extract_site_promotions on documents put together from phrases *)
(***************************************************************************)
MaxPhrases == 4

Phrases ==
    { <<"5","%"," ","o","f","f"," ">>,
      <<"2","0","%"," ","o","f","f"," ">>,
      <<"3","0","%"," ","o","f","f"," ">>,
      <<"1","0","0","%"," ","O","f","f"," ">>,
      <<"f","r","e","e"," ","s","h","i","p","p","i","n","g"," ","o","n"," ","o","r","d","e","r","s"," ","o","v","e","r"," ","$","7","5"," ">>,
      <<"F","r","e","e"," "," ","S","h","i","p","p","i","n","g",":"," ","$"," ","1","0","0","."," ">>,
      <<"c","l","e","a","r","a","n","c","e"," ">>,
      <<"s","e","l","e","c","t"," ","s","t","y","l","e","s"," ">> }

RECURSIVE RawOf(_)
RawOf(n) ==
    IF n = 0 THEN { <<>> }
    ELSE LET shorter == RawOf(n - 1)
         IN  shorter \cup { s \o p : s \in shorter, p \in Phrases }

InitPromo ==
    /\ pc = "promo_call"
    /\ html \in { [elems |-> <<>>, raw |-> r] : r \in RawOf(MaxPhrases) }
    /\ source_url = NoUrl
    /\ text = <<>>
    /\ price = None
    /\ Idle
    /\ args = <<>>
    /\ result = None
    /\ NoScrape

PromoReturn ==
    /\ pc = "promo_call"
    /\ \E ship_order \in ShipOrders(html.raw) :
          site_promotions' = extract_site_promotions(html.raw, ship_order)
    /\ pc' = "promo_done"
    /\ UNCHANGED <<priceVars, docVars, callVars, scrapeVars, scanVars, loopVars, fallbackVars,
                   historyVars>>

NextPromo == PromoReturn

SpecPromo == InitPromo /\ [][NextPromo]_vars

(***************************************************************************)
(* Container selection on long documents: a few elements, a long run of    *)
(* elements of one score, a few more elements                              *)
(***************************************************************************)
MaxEdge == 2

ScoreValues == {4, 5, 8}

RunLengths == {0, TopContainers - 2, TopContainers - 1, TopContainers}

RECURSIVE ScoreSeqs(_)
ScoreSeqs(n) ==
    IF n = 0 THEN { <<>> }
    ELSE LET shorter == ScoreSeqs(n - 1)
         IN  shorter \cup { Append(q, v) : q \in shorter, v \in ScoreValues }

InitSelect ==
    /\ pc = "select_call"
    /\ i = 1
    /\ products = <<>>
    /\ seen_names = {}
    /\ filtered_count = 0
    /\ products_with_prices = 0
    /\ origin = <<>>
    /\ link_index = 1
    /\ fb_products = <<>>
    /\ seen_prices = {}
    /\ fb_origin = <<>>
    /\ args = <<>>
    /\ result = None
    /\ NoScrape
    /\ structural = <<>>
    /\ fallback_calls = 0
    /\ promo_calls = 0
    /\ source_url = NoUrl
    /\ scores \in { a \o [k \in 1..n |-> v] \o b :
                      a \in ScoreSeqs(MaxEdge), b \in ScoreSeqs(MaxEdge),
                      n \in RunLengths, v \in ScoreValues }
    /\ product_containers = <<>>
    /\ html = EmptyHtml
    /\ site_promotions = <<>>
    /\ text = <<>>
    /\ price = None

SelectReturn ==
    /\ pc = "select_call"
    /\ product_containers' = ProductContainers(scores)
    /\ pc' = "select_done"
    /\ UNCHANGED <<priceVars, docVars, callVars, scrapeVars, scores, loopVars, fallbackVars,
                   site_promotions, historyVars>>

NextSelect == SelectReturn

SpecSelect == InitSelect /\ [][NextSelect]_vars

(***************************************************************************)
(* Calls of parse_products_universal on documents put together from        *)
(* fragments of markup                                                     *)
(*                                                                         *)
(* A fragment is the elements it adds to the document, in document order,  *)
(* and the characters it adds to the document's text.                      *)
(***************************************************************************)
Element ==
    [tag |-> "div", cls |-> {}, id |-> {}, data |-> {},
     a_href |-> FALSE, img |-> FALSE, currency |-> FALSE, long |-> FALSE,
     fault |-> "none",
     name |-> <<>>, name_invalid |-> FALSE, name_non_footwear |-> FALSE,
     link |-> <<>>, strike |-> <<>>, cands |-> <<>>,
     href |-> <<>>, parent_text |-> <<>>, link_text |-> <<>>, headings |-> <<>>]

Anchor(href, link_text, parent_text) ==
    [Element EXCEPT !.tag = "a", !.long = Len(Strip(link_text)) > 5,
                    !.href = href, !.link_text = link_text,
                    !.parent_text = parent_text]

\* <div class="product-card"> with an image, a linked name, a struck price
\* of $89.99 and a price of $59.99; evaluating it raises in the call fault
Card(fault) ==
    [elems |->
       << [Element EXCEPT !.cls = {"product", "card"}, !.a_href = TRUE,
                          !.img = TRUE, !.currency = TRUE, !.long = TRUE,
                          !.fault = fault,
                          !.name = <<"T","r","a","i","l"," ","R","u","n","n","e","r"," ","B","o","o","t">>,
                          !.link = <<"/","p","/","t","r","a","i","l","-","r","u","n","n","e","r","-","b","o","o","t">>,
                          !.strike = << <<"$","8","9",".","9","9">> >>,
                          !.cands = << PriceTag(<<"$","8","9",".","9","9">>, "class", TRUE),
                                       PriceTag(<<"$","5","9",".","9","9">>, "class", FALSE) >>],
          Anchor(<<"/","p","/","t","r","a","i","l","-","r","u","n","n","e","r","-","b","o","o","t">>, <<"T","r","a","i","l"," ","R","u","n","n","e","r"," ","B","o","o","t">>,
                 <<"T","r","a","i","l"," ","R","u","n","n","e","r"," ","B","o","o","t"," ","$","8","9",".","9","9"," ","$","5","9",".","9","9">>) >>,
     raw |-> <<"T","r","a","i","l"," ","R","u","n","n","e","r"," ","B","o","o","t"," ","$","8","9",".","9","9"," ","$","5","9",".","9","9"," ","3","0","%"," ","o","f","f"," ">>]

\* <li class="item"> with the same name in capitals, a struck price of $50.00
\* and a price of $80.00
Item ==
    [elems |->
       << [Element EXCEPT !.tag = "li", !.cls = {"item"}, !.a_href = TRUE,
                          !.currency = TRUE, !.long = TRUE,
                          !.name = <<"T","R","A","I","L"," ","R","U","N","N","E","R"," ","B","O","O","T">>,
                          !.link = <<"/","i","t","e","m","/","t","r","a","i","l","-","r","u","n","n","e","r">>,
                          !.strike = << <<"$","5","0",".","0","0">> >>,
                          !.cands = << PriceTag(<<"$","8","0",".","0","0">>, "class", FALSE) >>],
          Anchor(<<"/","i","t","e","m","/","t","r","a","i","l","-","r","u","n","n","e","r">>, <<"T","R","A","I","L"," ","R","U","N","N","E","R"," ","B","O","O","T">>,
                 <<"T","R","A","I","L"," ","R","U","N","N","E","R"," ","B","O","O","T"," ","$","5","0",".","0","0"," ","$","8","0",".","0","0">>) >>,
     raw |-> <<"T","R","A","I","L"," ","R","U","N","N","E","R"," ","B","O","O","T"," ","$","5","0",".","0","0"," ","$","8","0",".","0","0"," ">>]

\* <section id="product"> with a linked name, two prices in spans and a
\* "$10 Off" badge
Sneaker ==
    [elems |->
       << [Element EXCEPT !.tag = "section", !.id = {"product"}, !.a_href = TRUE,
                          !.currency = TRUE, !.long = TRUE,
                          !.name = <<"C","a","n","v","a","s"," ","S","n","e","a","k","e","r"," ","L","o","w">>,
                          !.link = <<"/","p","/","c","a","n","v","a","s","-","s","n","e","a","k","e","r">>,
                          !.cands = << PriceTag(<<"$","1","2","0",".","0","0">>, "tag", FALSE),
                                       PriceTag(<<"$","8","9",".","9","9">>, "tag", FALSE),
                                       PriceTag(<<"$","1","0"," ","O","f","f">>, "tag", FALSE) >>],
          Anchor(<<"/","p","/","c","a","n","v","a","s","-","s","n","e","a","k","e","r">>, <<"C","a","n","v","a","s"," ","S","n","e","a","k","e","r"," ","L","o","w">>,
                 <<"C","a","n","v","a","s"," ","S","n","e","a","k","e","r"," ","L","o","w"," ","$","1","2","0",".","0","0"," ","$","8","9",".","9","9"," ","$","1","0"," ","O","f","f">>) >>,
     raw |-> <<"C","a","n","v","a","s"," ","S","n","e","a","k","e","r"," ","L","o","w"," ","$","1","2","0",".","0","0"," ","$","8","9",".","9","9"," ","$","1","0"," ","O","f","f"," ","c","l","e","a","r","a","n","c","e"," ">>]

\* <div class="product-tile"> of a gift card
Gift ==
    [elems |->
       << [Element EXCEPT !.cls = {"product", "tile"}, !.a_href = TRUE,
                          !.currency = TRUE, !.long = TRUE,
                          !.name = <<"H","o","l","i","d","a","y"," ","G","i","f","t"," ","C","a","r","d">>,
                          !.name_non_footwear = TRUE,
                          !.link = <<"/","p","/","g","i","f","t","-","c","a","r","d">>,
                          !.cands = << PriceTag(<<"$","2","5",".","0","0">>, "class", FALSE) >>],
          Anchor(<<"/","p","/","g","i","f","t","-","c","a","r","d">>, <<"H","o","l","i","d","a","y"," ","G","i","f","t"," ","C","a","r","d">>,
                 <<"H","o","l","i","d","a","y"," ","G","i","f","t"," ","C","a","r","d"," ","$","2","5",".","0","0">>) >>,
     raw |-> <<"H","o","l","i","d","a","y"," ","G","i","f","t"," ","C","a","r","d"," ","$","2","5",".","0","0"," ">>]

\* <div> of the navigation with a link to the cart
Nav ==
    [elems |->
       << [Element EXCEPT !.a_href = TRUE, !.long = TRUE],
          Anchor(<<"/","c","a","r","t">>, <<"V","i","e","w"," ","c","a","r","t">>, <<"V","i","e","w"," ","c","a","r","t"," ","$","5","9",".","9","9">>) >>,
     raw |-> <<"V","i","e","w"," ","c","a","r","t"," ","$","5","9",".","9","9"," ","s","e","l","e","c","t"," ","s","t","y","l","e","s"," ">>]

\* anchors of a script-rendered catalog, outside any div, article, li or
\* section: the price as "129.00 USD", as "$129.00 USD", and an anchor with
\* no usable text or path
JsAnchor ==
    [elems |-> << Anchor(<<"/","p","/","r","u","n","n","e","r","-","x">>, <<"R","u","n","n","e","r"," ","X">>, <<"R","u","n","n","e","r"," ","X"," ","1","2","9",".","0","0"," ","U","S","D">>) >>,
     raw |-> <<"R","u","n","n","e","r"," ","X"," ","1","2","9",".","0","0"," ","U","S","D"," ">>]

JsAnchorDollar ==
    [elems |-> << Anchor(<<"/","p","/","r","u","n","n","e","r","-","x">>, <<"R","u","n","n","e","r"," ","X">>, <<"R","u","n","n","e","r"," ","X"," ","$","1","2","9",".","0","0"," ","U","S","D">>) >>,
     raw |-> <<"R","u","n","n","e","r"," ","X"," ","$","1","2","9",".","0","0"," ","U","S","D"," ">>]

JsAnchorBare ==
    [elems |-> << Anchor(<<"/","s","/","4","2">>, <<"$","7","5">>, <<"$","7","5",".","0","0"," ","1",",","2","5","0",".","0","0">>) >>,
     raw |-> <<"$","7","5",".","0","0"," ","1",",","2","5","0",".","0","0"," ">>]

\* a banner outside any element the engine looks at
Banner ==
    [elems |-> <<>>,
     raw |-> <<"f","r","e","e"," ","s","h","i","p","p","i","n","g"," ","o","n"," ","o","r","d","e","r","s"," ","o","v","e","r"," ","$","7","5"," ">>]

Faults == {"none", "score", "name", "link", "prices"}

Fragments ==
    { Card(f) : f \in Faults }
      \cup { Item, Sneaker, Gift, Nav, JsAnchor, JsAnchorDollar, JsAnchorBare, Banner }

MaxFragments == 2

RECURSIVE Documents(_)
Documents(n) ==
    IF n = 0 THEN { EmptyHtml }
    ELSE LET shorter == Documents(n - 1)
         IN  shorter \cup { [elems |-> d.elems \o f.elems, raw |-> d.raw \o f.raw] :
                              d \in shorter, f \in Fragments }

ShopUrl ==
    [scheme |-> <<"h","t","t","p","s">>, netloc |-> <<"w","w","w",".","s","h","o","e","b","a","r","n",".","c","o","m">>, path |-> <<"/","s","a","l","e">>]

Init ==
    /\ pc = "scan"
    /\ html \in Documents(MaxFragments)
    /\ source_url \in {NoUrl, ShopUrl}
    /\ text = <<>>
    /\ price = None
    /\ Idle
    /\ args = <<>>
    /\ result = None
    /\ NoScrape

\* soup.find_all(['div', 'article', 'li', 'section', 'a'])
all_elements == html.elems

\* Step 1: every element is scored, outside any try; the candidates are sorted
\* and the first TopContainers of them kept
ScanContainers ==
    /\ pc = "scan"
    /\ IF \E k \in 1..Len(all_elements) : all_elements[k].fault = "score"
       THEN /\ pc' = "raised"
            /\ UNCHANGED scanVars
       ELSE /\ scores' = [k \in 1..Len(all_elements) |->
                            score_as_product_container(all_elements[k])]
            /\ product_containers' = ProductContainers(scores')
            /\ pc' = "extract"
    /\ UNCHANGED <<priceVars, docVars, callVars, scrapeVars, loopVars, fallbackVars,
                   site_promotions, historyVars>>

\* a test of seen_names that never finds the key
NeverSeen(name_key, seen) == FALSE

\* name_key in seen_names
AlreadySeen(name_key, seen) == name_key \in seen

\* the record of the structural pass for a container with the prices found
StructuralProduct(container, original, sale) ==
    [name     |-> container.name,
     url      |-> IF container.link # <<>>
                 THEN UrlJoin(BaseUrl(source_url), container.link) ELSE NA,
     original |-> IF Truthy(original) THEN FormatPrice(original) ELSE NA,
     sale     |-> IF Truthy(sale) THEN FormatPrice(sale) ELSE NA,
     discount |-> calculate_discount(original, sale),
     brand    |-> Brand(source_url),
     category |-> Footwear]

\* Step 2, one round of the loop: the body runs inside a try whose handler
\* continues with the next container
ExtractFields ==
    /\ pc = "extract"
    /\ i <= Len(product_containers)
    /\ LET container == all_elements[product_containers[i]]
           name_key  == NameKey(container.name)
       IN  IF container.fault = "name"
           THEN UNCHANGED <<products, seen_names, filtered_count,
                            products_with_prices, origin>>
           ELSE IF container.name = <<>> \/ Len(container.name) < MinNameLen
           THEN UNCHANGED <<products, seen_names, filtered_count,
                            products_with_prices, origin>>
           ELSE IF container.name_invalid \/ container.name_non_footwear
           THEN /\ filtered_count' = filtered_count + 1
                /\ UNCHANGED <<products, seen_names, products_with_prices, origin>>
           ELSE IF AlreadySeen(name_key, seen_names)
           THEN UNCHANGED <<products, seen_names, filtered_count,
                            products_with_prices, origin>>
           ELSE IF container.fault \in {"link", "prices"}
           THEN /\ seen_names' = seen_names \cup {name_key}
                /\ UNCHANGED <<products, filtered_count, products_with_prices, origin>>
           ELSE \E found \in { find_prices_bulletproof(container) } :
                /\ seen_names' = seen_names \cup {name_key}
                /\ products_with_prices' =
                      IF Truthy(found[2])
                      THEN products_with_prices + 1 ELSE products_with_prices
                /\ products' = Append(products,
                                      StructuralProduct(container, found[1], found[2]))
                /\ origin' = Append(origin, product_containers[i])
                /\ UNCHANGED filtered_count
    /\ i' = i + 1
    /\ UNCHANGED <<pc, priceVars, docVars, callVars, scrapeVars, scanVars, fallbackVars,
                   site_promotions, historyVars>>

\* a test that also sends a single record to the fallback
FewerThanTwo(prods) == Len(prods) < 2

\* len(products) == 0
NeedsFallback(prods) == Len(prods) = 0

\* the loop is over: the fallback is called if it left no record
ExtractDone ==
    /\ pc = "extract"
    /\ i > Len(product_containers)
    /\ structural' = products
    /\ IF NeedsFallback(products)
       THEN /\ pc' = "fallback"
            /\ fallback_calls' = fallback_calls + 1
       ELSE /\ pc' = "promotions"
            /\ UNCHANGED fallback_calls
    /\ UNCHANGED <<priceVars, docVars, callVars, scrapeVars, scanVars, loopVars, fallbackVars,
                   site_promotions, promo_calls>>

\* soup.find_all('a', href=True)
all_links ==
    SelectSeq([k \in 1..Len(html.elems) |-> html.elems[k]],
              LAMBDA e : e.tag = "a" /\ e.href # <<>>)

\* extract_products_from_price_patterns, one round of its loop
FallbackAnchor ==
    /\ pc = "fallback"
    /\ link_index <= Len(all_links)
    /\ \E link \in { all_links[link_index] } :
       \E prices \in { FallbackPrices(link.parent_text, 1) } :
           IF SkippedHref(link.href) \/ prices = <<>> \/ Sorted(prices) \in seen_prices
           THEN UNCHANGED <<fb_products, seen_prices, fb_origin>>
           ELSE /\ seen_prices' = seen_prices \cup {Sorted(prices)}
                /\ fb_products' = Append(fb_products,
                                         FallbackProduct(link, prices, source_url))
                /\ fb_origin' = Append(fb_origin, link_index)
    /\ link_index' = link_index + 1
    /\ UNCHANGED <<pc, priceVars, docVars, callVars, scrapeVars, scanVars, loopVars,
                   site_promotions, historyVars>>

\* the fallback returns: products = extract_products_from_price_patterns(...)
FallbackReturn ==
    /\ pc = "fallback"
    /\ link_index > Len(all_links)
    /\ products' = fb_products
    /\ pc' = "promotions"
    /\ UNCHANGED <<priceVars, docVars, callVars, scrapeVars, scanVars, i, seen_names,
                   filtered_count, products_with_prices, origin, fallbackVars,
                   site_promotions, historyVars>>

\* Step 3 and the return of (products, site_promotions)
ScanSitePromotions ==
    /\ pc = "promotions"
    /\ \E ship_order \in ShipOrders(html.raw) :
          site_promotions' = extract_site_promotions(html.raw, ship_order)
    /\ promo_calls' = promo_calls + 1
    /\ pc' = "done"
    /\ UNCHANGED <<priceVars, docVars, callVars, scrapeVars, scanVars, loopVars, fallbackVars,
                   structural, fallback_calls>>

Next ==
    \/ ScanContainers
    \/ ExtractFields
    \/ ExtractDone
    \/ FallbackAnchor
    \/ FallbackReturn
    \/ ScanSitePromotions

Spec == Init /\ [][Next]_vars

(***************************************************************************)
(* find_product_link                                                       *)
(*                                                                         *)
(* links is container.find_all('a', href=True), each anchor a record of    *)
(* its href and its text.  The function returns a URL or None; None is the *)
(* empty sequence here, which no join with a base URL gives.               *)
(***************************************************************************)
NoLink == <<>>

link_skip_words ==
    { <<"c","a","r","t">>, <<"c","h","e","c","k","o","u","t">>, <<"a","c","c","o","u","n","t">>, <<"l","o","g","i","n">>, <<"j","a","v","a","s","c","r","i","p","t",":">>, <<"#">> }

link_patterns ==
    { <<"/","p","r","o","d","u","c","t","/">>, <<"/","p","/">>, <<"/","i","t","e","m","/">>, <<"/","d","p","/">>, <<".","h","t","m","l">>,
      <<"-","s","h","o","e">>, <<"-","b","o","o","t">>, <<"-","s","n","e","a","k","e","r">>, <<"/","m","e","n","/">>, <<"/","w","o","m","e","n","/">> }

MinLinkTextLen == 5

MaxLinkTextLen == 200

\* the score of an anchor that is not skipped
LinkScore(link) ==
    (IF \E pattern \in link_patterns : Contains(Lower(link.href), pattern)
     THEN 3 ELSE 0)
      + (IF /\ MinLinkTextLen <= Len(Strip(link.text))
            /\ Len(Strip(link.text)) <= MaxLinkTextLen
         THEN 1 ELSE 0)

\* the loop over links from anchor n on; best is <<best_link, best_score>>
RECURSIVE BestLink(_, _, _)
BestLink(links, n, best) ==
    IF n > Len(links) THEN best[1]
    ELSE IF \E word \in link_skip_words : Contains(Lower(links[n].href), word)
         THEN BestLink(links, n + 1, best)
         ELSE IF LinkScore(links[n]) > best[2]
              THEN BestLink(links, n + 1, <<links[n].href, LinkScore(links[n])>>)
              ELSE BestLink(links, n + 1, best)

find_product_link(links, base_url) ==
    LET best_link == BestLink(links, 1, <<NoLink, 0>>)
    IN  IF best_link # NoLink THEN UrlJoin(base_url, best_link)
        ELSE IF links # <<>> THEN UrlJoin(base_url, links[1].href)
             ELSE NoLink

(***************************************************************************)
(* Calls of find_product_link on containers put together from anchors      *)
(***************************************************************************)
LinkAnchors ==
    { [href |-> <<"/","c","a","r","t">>,               text |-> <<"V","i","e","w"," ","c","a","r","t">>],
      [href |-> <<"/","a","c","c","o","u","n","t","/","l","o","g","i","n">>,      text |-> <<"S","i","g","n"," ","i","n">>],
      [href |-> <<"/","p","/","t","r","a","i","l","-","b","o","o","t","#","s","i","z","e","s">>, text |-> <<"T","r","a","i","l"," ","B","o","o","t"," ","s","i","z","e","s">>],
      [href |-> <<"/","p","/","t","r","a","i","l","-","b","o","o","t">>,       text |-> <<"T","r","a","i","l"," ","B","o","o","t">>],
      [href |-> <<"/","w","o","m","e","n","/","h","e","e","l","s",".","h","t","m","l">>,   text |-> <<" ">>],
      [href |-> <<"/","s","a","l","e">>,               text |-> <<"G","o">>],
      [href |-> <<"/","i","n","f","o">>,               text |-> <<"A","b","o","u","t"," ","u","s">>],
      [href |-> <<"/","I","t","e","m","/","r","u","n","n","e","r">>,        text |-> <<"R","u","n","n","e","r">>] }

MaxLinks == 2

LinkLists(n) == UNION { [1..k -> LinkAnchors] : k \in 0..n }

InitLink ==
    /\ pc = "link_call"
    /\ args \in [links : LinkLists(MaxLinks), base_url : {BaseUrl(ShopUrl)}]
    /\ result = None
    /\ NoScrape
    /\ text = <<>>
    /\ price = None
    /\ html = EmptyHtml
    /\ source_url = NoUrl
    /\ Idle

FindLinkReturn ==
    /\ pc = "link_call"
    /\ result' = find_product_link(args.links, args.base_url)
    /\ pc' = "link_done"
    /\ UNCHANGED <<priceVars, docVars, args, scrapeVars, scanVars, loopVars, fallbackVars,
                   site_promotions, historyVars>>

NextLink == FindLinkReturn

SpecLink == InitLink /\ [][NextLink]_vars

(***************************************************************************)
(* Calls of extract_products_from_price_patterns on documents of anchors   *)
(***************************************************************************)
FallbackAnchors ==
    { Anchor(<<"/","p","/","c","a","n","v","a","s","-","s","l","i","p">>, <<"C","a","n","v","a","s"," ","S","l","i","p">>, <<"C","a","n","v","a","s"," ","S","l","i","p"," ","5",".","0","0"," ","U","S","D">>),
      Anchor(<<"/","p","/","a","l","p","i","n","e","-","b","o","o","t">>, <<"A","l","p","i","n","e"," ","B","o","o","t">>, <<"A","l","p","i","n","e"," ","B","o","o","t"," ","$","2","0","0","0",".","0","0">>),
      Anchor(<<"/","p","/","s","h","o","e","-","l","a","c","e","s">>, <<"S","h","o","e"," ","L","a","c","e","s">>, <<"S","h","o","e"," ","L","a","c","e","s"," ","$","4",".","9","9">>),
      Anchor(<<"/","p","/","g","o","l","d","-","b","o","o","t">>, <<"G","o","l","d"," ","B","o","o","t">>, <<"G","o","l","d"," ","B","o","o","t"," ","2",",","0","0","0",".","0","1">>),
      Anchor(<<"/","p","/","f","l","i","p","-","f","l","o","p">>, <<"F","l","i","p"," ","F","l","o","p">>, <<"F","l","i","p"," ","F","l","o","p"," ","$","5",".","0","1">>),
      Anchor(<<"/","p","/","r","u","n","n","e","r","-","x">>, <<"R","u","n","n","e","r"," ","X">>, <<"R","u","n","n","e","r"," ","X"," ","1","2","9",".","0","0"," ","U","S","D">>),
      Anchor(<<"/","p","/","r","u","n","n","e","r","-","x">>, <<"R","u","n","n","e","r"," ","X">>, <<"R","u","n","n","e","r"," ","X"," ","$","1","2","9",".","0","0"," ","U","S","D">>),
      Anchor(<<"/","p","/","t","r","a","i","l">>, <<"T","r","a","i","l"," ","B","o","o","t">>, <<"T","r","a","i","l"," ","B","o","o","t"," ","$","1","2","0",".","0","0"," ","$","8","9",".","9","9">>),
      Anchor(<<"/","p","/","t","r","a","i","l","-","w","i","d","e">>, <<"T","r","a","i","l"," ","B","o","o","t"," ","W","i","d","e">>, <<"T","r","a","i","l"," ","B","o","o","t"," ","W","i","d","e"," ","$","8","9",".","9","9"," ","$","1","2","0",".","0","0">>),
      Anchor(<<"/","c","a","r","t">>, <<"V","i","e","w"," ","c","a","r","t">>, <<"V","i","e","w"," ","c","a","r","t"," ","$","5","9",".","9","9">>),
      Anchor(<<"/","p","/","s","i","z","e","s">>, <<"S","i","z","e"," ","g","u","i","d","e">>, <<"S","i","z","e"," ","g","u","i","d","e">>) }

MaxAnchors == 2

AnchorDocuments(n) ==
    { [elems |-> links, raw |-> <<>>] :
        links \in UNION { [1..k -> FallbackAnchors] : k \in 0..n } }

InitFallback ==
    /\ pc = "fallback"
    /\ html \in AnchorDocuments(MaxAnchors)
    /\ source_url = ShopUrl
    /\ text = <<>>
    /\ price = None
    /\ Idle
    /\ args = <<>>
    /\ result = None
    /\ NoScrape

NextFallback ==
    \/ FallbackAnchor
    \/ FallbackReturn

SpecFallback == InitFallback /\ [][NextFallback]_vars

(***************************************************************************)
(* scrape_website                                                          *)
(*                                                                         *)
(* The arguments are auto_paginate and max_pages.  What the browser does   *)
(* is not the program's to decide: creating the driver and setting its     *)
(* timeouts succeed or raise, a page load succeeds, times out or raises    *)
(* another error, scrolling and reading the page source succeed or raise,  *)
(* and the search for a next-page control ends with a control clicked or   *)
(* with none.  The result is the pair of the combined html, here the       *)
(* sequence of the pages joined, and the metadata, of which pages_scraped  *)
(* and the presence of an 'error' entry are kept.                          *)
(***************************************************************************)
MaxPages == 3

max_retries == 3

\* range(1, max_pages + 1) has no number after page number n
RangeOneMore(n, max_pages) == n > max_pages

RangeExhausted(n, max_pages) == n >= max_pages

\* attempt == max_retries, for an attempt counter that goes one further
GivesUpLater(a) == a = max_retries + 1

\* attempt == max_retries
GivesUp(a) == a = max_retries

\* return "", {"error": str(e), "pages_scraped": pages_scraped}
FatalResult(n) ==
    [html |-> <<>>, metadata |-> [pages_scraped |-> n, error |-> TRUE]]

InitScrape ==
    /\ pc = "scrape_init"
    /\ args \in [auto_paginate : BOOLEAN, max_pages : 0..MaxPages]
    /\ result = None
    /\ NoScrape
    /\ text = <<>>
    /\ price = None
    /\ html = EmptyHtml
    /\ source_url = NoUrl
    /\ Idle

\* the driver is created and its timeouts are set; a fault in either is fatal
CreateDriver ==
    /\ pc = "scrape_init"
    /\ \E created \in {"ok", "no_driver", "no_timeouts"} :
          /\ driver' = IF created = "no_driver" THEN "none" ELSE "open"
          /\ IF created = "ok"
             THEN pc' = "page" /\ UNCHANGED result
             ELSE pc' = "finally" /\ result' = FatalResult(pages_scraped)
    /\ UNCHANGED <<priceVars, docVars, args, all_html, pages_scraped, page_num,
                   attempt, next_page_found, outcome, quits, scanVars, loopVars,
                   fallbackVars, site_promotions, historyVars>>

\* the head of the loop over the page numbers
NextPage ==
    /\ pc = "page"
    /\ IF RangeExhausted(page_num, args.max_pages)
       THEN pc' = "combine" /\ UNCHANGED <<page_num, attempt>>
       ELSE /\ page_num' = page_num + 1
            /\ IF ~args.auto_paginate /\ page_num' > 1
               THEN pc' = "combine" /\ UNCHANGED attempt
               ELSE pc' = "load" /\ attempt' = 1
    /\ UNCHANGED <<priceVars, docVars, callVars, driver, all_html, pages_scraped,
                   next_page_found, outcome, quits, scanVars, loopVars,
                   fallbackVars, site_promotions, historyVars>>

\* one attempt to load the page
LoadPage ==
    /\ pc = "load"
    /\ \E loaded \in {"loaded", "timeout", "error"} :
          /\ outcome' = loaded
          /\ IF loaded = "loaded"
             THEN pc' = "capture" /\ UNCHANGED attempt
             ELSE IF loaded = "timeout" /\ ~GivesUp(attempt)
                  THEN attempt' = attempt + 1 /\ UNCHANGED pc
                  ELSE pc' = "combine" /\ UNCHANGED attempt
    /\ UNCHANGED <<priceVars, docVars, callVars, driver, all_html, pages_scraped,
                   page_num, next_page_found, quits, scanVars, loopVars,
                   fallbackVars, site_promotions, historyVars>>

\* the page is scrolled and its source is kept; a fault ends the loop
CapturePage ==
    /\ pc = "capture"
    /\ \E captured \in BOOLEAN :
          IF captured
          THEN /\ all_html' = Append(all_html, page_num)
               /\ pages_scraped' = pages_scraped + 1
               /\ pc' = "next"
          ELSE pc' = "combine" /\ UNCHANGED <<all_html, pages_scraped>>
    /\ UNCHANGED <<priceVars, docVars, callVars, driver, page_num, attempt,
                   next_page_found, outcome, quits, scanVars, loopVars,
                   fallbackVars, site_promotions, historyVars>>

\* the search for a next-page control that is displayed and enabled
FindNextPage ==
    /\ pc = "next"
    /\ IF args.auto_paginate /\ page_num < args.max_pages
       THEN \E found \in BOOLEAN :
               /\ next_page_found' = found
               /\ pc' = IF found THEN "page" ELSE "combine"
       ELSE pc' = "page" /\ UNCHANGED next_page_found
    /\ UNCHANGED <<priceVars, docVars, callVars, driver, all_html, pages_scraped,
                   page_num, attempt, outcome, quits, scanVars, loopVars,
                   fallbackVars, site_promotions, historyVars>>

\* the pages are joined and returned with the metadata
CombineHtml ==
    /\ pc = "combine"
    /\ result' = [html |-> all_html,
                  metadata |-> [pages_scraped |-> pages_scraped, error |-> FALSE]]
    /\ pc' = "finally"
    /\ UNCHANGED <<priceVars, docVars, args, scrapeVars, scanVars, loopVars,
                   fallbackVars, site_promotions, historyVars>>

\* finally: if driver: driver.quit()
QuitDriver ==
    /\ pc = "finally"
    /\ IF driver = "open"
       THEN driver' = "quit" /\ quits' = quits + 1
       ELSE UNCHANGED <<driver, quits>>
    /\ pc' = "scrape_done"
    /\ UNCHANGED <<priceVars, docVars, callVars, all_html, pages_scraped, page_num,
                   attempt, next_page_found, outcome, scanVars, loopVars,
                   fallbackVars, site_promotions, historyVars>>

NextScrape ==
    \/ CreateDriver
    \/ NextPage
    \/ LoadPage
    \/ CapturePage
    \/ FindNextPage
    \/ CombineHtml
    \/ QuitDriver

SpecScrape == InitScrape /\ [][NextScrape]_vars

(***************************************************************************)
(* Claims                                                                  *)
(***************************************************************************)

\* the amounts written in t: the maximal runs of digits, commas and points that
\* read as a number (digits and thousands separators, then at most one point
\* followed by two digits), each with its value in cents
AmountChar(c) == IsDigit(c) \/ c = "," \/ c = "."

WellFormedAmount(r) ==
    LET n == Len(r)
        w == IF n >= 3 /\ r[n - 2] = "." THEN n - 3 ELSE n
    IN  /\ w >= 1
        /\ IsDigit(r[1])
        /\ \A x \in 1..w : IsDigit(r[x]) \/ r[x] = ","
        /\ w < n => IsDigit(r[n - 1]) /\ IsDigit(r[n])

WrittenAmounts(t) ==
    { ToPrice(SubSeq(t, a, b)) : <<a, b>> \in
        { ab \in (1..Len(t)) \X (1..Len(t)) :
            /\ ab[1] <= ab[2]
            /\ \A x \in ab[1]..ab[2] : AmountChar(t[x])
            /\ (ab[1] = 1 \/ ~AmountChar(t[ab[1] - 1]))
            /\ (ab[2] = Len(t) \/ ~AmountChar(t[ab[2] + 1]))
            /\ WellFormedAmount(SubSeq(t, ab[1], ab[2])) } }

\* C10: extract_price_bulletproof returns no price or a price in [5, 2000] that
\* is the full amount written in the text, never a truncated one
C10_PriceIsFullAmountInRange ==
    pc = "price_done" =>
        \/ price = None
        \/ InPriceRange(price) /\ price \in WrittenAmounts(Strip(text))

\* the numeric values of the percentages written before "off" in the document
PercentValues(raw) == { DigitsValue(m) : m \in Range(FindPromo(raw, "percent")) }

\* the (at most three) highest of a set of numbers
TopThree(S) == { v \in S : Cardinality({ w \in S : w > v }) < 3 }

\* C9: extract_site_promotions returns at most 10 entries, no string twice, and
\* its "N% Off" entries are at most 3 and are exactly the numerically highest
\* distinct percent values of the document
C9_TopThreePercents ==
    pc = "promo_done" =>
        LET offs == { k \in 1..Len(site_promotions) : site_promotions[k].kind = "Off" }
        IN  /\ Len(site_promotions) <= 10
            /\ \A j, k \in 1..Len(site_promotions) :
                    site_promotions[j] = site_promotions[k] => j = k
            /\ Cardinality(offs) <= 3
            /\ { DigitsValue(site_promotions[k].n) : k \in offs }
                    = TopThree(PercentValues(html.raw))

Promoted == Range(product_containers)

LeftOut == { k \in 1..Len(scores) : scores[k] >= 5 } \ Promoted

\* C4: exactly the elements of score >= 5 are candidates; the promoted containers
\* are the first min(300, number of candidates) of them by descending score,
\* equal scores in document order; no candidate left out has a higher score than
\* a promoted one, nor an equal score and an earlier place in the document
C4_TopContainersByScore ==
    pc = "select_done" =>
        LET n == Cardinality({ k \in 1..Len(scores) : scores[k] >= 5 })
        IN  /\ Promoted \subseteq { k \in 1..Len(scores) : scores[k] >= 5 }
            /\ Len(product_containers) = (IF n < 300 THEN n ELSE 300)
            /\ Cardinality(Promoted) = Len(product_containers)
            /\ \A a \in 1..(Len(product_containers) - 1) :
                  LET x == product_containers[a]
                      y == product_containers[a + 1]
                  IN  scores[x] > scores[y] \/ (scores[x] = scores[y] /\ x < y)
            /\ \A c \in LeftOut : \A q \in Promoted :
                  scores[c] < scores[q] \/ (scores[c] = scores[q] /\ q < c)

\* C4 witness: more than 300 candidates, and a candidate left out that has the
\* score of a promoted one
C4_Witness ==
    /\ pc = "select_done"
    /\ Len(product_containers) = 300
    /\ \E c \in LeftOut : \E q \in Promoted : scores[c] = scores[q]

\* the price, in cents, that a 'Original Price' or 'Sale Price' entry shows
PriceOf(entry) == ToPrice(SubSeq(entry, 2, Len(entry)))

\* tenths is (original - sale) / original * 100 to one decimal
IsPercentOf(tenths, original, sale) ==
    /\ 2 * (1000 * (original - sale) - tenths * original) <= original
    /\ 2 * (tenths * original - 1000 * (original - sale)) <= original

\* C1: in every record returned, by the structural pass or by the fallback, that
\* has both an original and a sale price, original > sale > 0 and the discount
\* is their percentage to one decimal, never 'N/A'
C1_OriginalAboveSale ==
    pc = "done" =>
        \A k \in 1..Len(products) :
            (products[k].original # NA /\ products[k].sale # NA) =>
                LET original == PriceOf(products[k].original)
                    sale     == PriceOf(products[k].sale)
                IN  /\ original > sale
                    /\ sale > 0
                    /\ products[k].discount # NA
                    /\ \E tenths \in 0..1000 :
                          /\ IsPercentOf(tenths, original, sale)
                          /\ products[k].discount = FormatPercent(tenths)

\* the containers of product_containers whose name reaches the test of
\* seen_names: found, long enough and passed by both filters
ReachesDedup(container) ==
    /\ container.fault # "name"
    /\ Len(container.name) >= MinNameLen
    /\ ~container.name_invalid
    /\ ~container.name_non_footwear

NoTwoWithOneKey(records) ==
    \A a, b \in 1..Len(records) :
        a # b => NameKey(records[a].name) # NameKey(records[b].name)

\* C2 as the specification has it: no two records returned have the same
\* normalized name key, whichever pass made them
C2_ReturnedKeysUnique == pc = "done" => NoTwoWithOneKey(products)

\* the place of element e in product_containers
PlaceOf(e) == CHOOSE q \in 1..Len(product_containers) : product_containers[q] = e

\* C2: no two records of the structural pass have the same normalized name key;
\* a record comes from the first container processed whose name reaches the test
\* with that key; and a container whose key has been seen is dropped with no
\* effect but the loop moving on
C2_StructuralKeysUnique ==
    /\ [](fallback_calls = 0 =>
            /\ NoTwoWithOneKey(products)
            /\ \A a \in 1..Len(products) : \A q \in 1..(PlaceOf(origin[a]) - 1) :
                  LET earlier == all_elements[product_containers[q]]
                  IN  ~(/\ ReachesDedup(earlier)
                        /\ NameKey(earlier.name) = NameKey(products[a].name)))
    /\ [][(/\ pc = "extract"
           /\ i <= Len(product_containers)
           /\ ReachesDedup(all_elements[product_containers[i]])
           /\ NameKey(all_elements[product_containers[i]].name) \in seen_names)
          => /\ i' = i + 1
             /\ UNCHANGED <<pc, products, seen_names, filtered_count,
                            products_with_prices, origin, site_promotions>>]_vars

\* C2 witness: the structural pass is over and has dropped a container whose
\* name differs from a record's only in case
C2_Witness ==
    /\ pc = "promotions"
    /\ fallback_calls = 0
    /\ \E a \in 1..Len(products) : \E q \in 1..Len(product_containers) :
          LET dropped == all_elements[product_containers[q]]
          IN  /\ product_containers[q] # origin[a]
              /\ ReachesDedup(dropped)
              /\ dropped.name # products[a].name
              /\ NameKey(dropped.name) = NameKey(products[a].name)

C5_FallbackIffNoRecords ==
    /\ fallback_calls > 0 => /\ pc \in {"fallback", "promotions", "done"}
                             /\ structural = <<>>
                             /\ fallback_calls = 1
    /\ pc \in {"promotions", "done"} =>
          IF structural # <<>>
          THEN fallback_calls = 0 /\ products = structural
          ELSE /\ fallback_calls = 1
               /\ link_index = Len(all_links) + 1
               /\ products = fb_products

\* C5 witness: the structural pass left no record and the call has returned
\* what the fallback found
C5_Witness ==
    /\ pc = "done"
    /\ structural = <<>>
    /\ fallback_calls = 1
    /\ Len(products) >= 1

\* C6: a call goes through SCAN_CONTAINERS, EXTRACT_FIELDS, FALLBACK (if there
\* is no record), SCAN_SITE_PROMOTIONS and DONE and is in no other phase, scans
\* for promotions once, after extraction and fallback, and what the scan
\* returns depends on the raw html only
C6_PhasesToDone ==
    /\ pc \in {"scan", "extract", "fallback", "promotions", "done"}
    /\ promo_calls = (IF pc = "done" THEN 1 ELSE 0)
    /\ pc = "done" =>
          site_promotions \in { extract_site_promotions(html.raw, ship_order) :
                                  ship_order \in ShipOrders(html.raw) }

\* C7: a fault raised in the evaluation of one container never aborts the call;
\* the faulting container yields no record, and every other container whose
\* name reaches the test of seen_names has a record of its name in the records
\* of the structural pass
C7_FaultsAreSkipped ==
    /\ pc # "raised"
    /\ \A a \in 1..Len(origin) : all_elements[origin[a]].fault = "none"
    /\ pc \in {"fallback", "promotions", "done"} =>
          \A q \in 1..Len(product_containers) :
              LET container == all_elements[product_containers[q]]
              IN  (container.fault = "none" /\ ReachesDedup(container)) =>
                      \E a \in 1..Len(structural) :
                          NameKey(structural[a].name) = NameKey(container.name)

MatchingPatterns(t) == { n \in 1..Len(patterns) : FindAll(t, patterns[n]) # <<>> }

\* C11: the price extract_price_bulletproof returns is the first in-range match
\* of the highest-priority pattern that has any match in the text; no pattern
\* of lower priority is consulted once one has matched
C11_FirstMatchingPatternWins ==
    (pc = "price_done" /\ price # None) =>
        /\ MatchingPatterns(Strip(text)) # {}
        /\ price = FirstInRange(FindAll(Strip(text),
                                        patterns[Min(MatchingPatterns(Strip(text)))]))

\* C12: the euro and the pound sign are currency symbols as the dollar sign is:
\* "$19.99", "19.99 USD" and the same amount after a euro or a pound sign give
\* 19.99, and a text with an amount after a euro or a pound sign is not
\* rejected, whatever noise word or percent sign it has besides
C12_EuroAndPoundAsDollar ==
    pc = "price_done" =>
        /\ Strip(text) \in { DollarSign \o <<"1","9",".","9","9">>,
                             <<"1","9",".","9","9">> \o <<" ">> \o USDLiteral,
                             EuroSign \o <<"1","9",".","9","9">>,
                             PoundSign \o <<"1","9",".","9","9">> }
              => price = 1999
        /\ (\/ Contains(text, EuroSign \o <<"1","9",".","9","9">>)
            \/ Contains(text, PoundSign \o <<"1","9",".","9","9">>))
              => price # None

\* C13: calculate_discount returns (original - sale) / original * 100 with one
\* decimal and a '%' sign exactly when both prices are present and
\* original > sale > 0, and 'N/A' in every other case; (100, 75) gives '25.0%'
\* and (75, 100) gives 'N/A'
C13_DiscountOrNA ==
    pc = "discount_done" =>
        /\ IF /\ args.original # None
              /\ args.sale # None
              /\ args.original > args.sale
              /\ args.sale > 0
           THEN \E tenths \in 0..1000 :
                   /\ IsPercentOf(tenths, args.original, args.sale)
                   /\ result = FormatPercent(tenths)
           ELSE result = NA
        /\ args = [original |-> 10000, sale |-> 7500]
              => result = <<"2","5",".","0","%">>
        /\ args = [original |-> 7500, sale |-> 10000] => result = NA

\* C13 witness: calculate_discount(100, 75) has returned '25.0%'
C13_Witness ==
    /\ pc = "discount_done"
    /\ args = [original |-> 10000, sale |-> 7500]
    /\ result = <<"2","5",".","0","%">>

\* S: the price of the first strikethrough text that yields one, None if none
StruckPrice(strike) ==
    LET yielding == { k \in 1..Len(strike) :
                        extract_price_bulletproof(strike[k]) # None }
    IN  IF yielding = {} THEN None
        ELSE extract_price_bulletproof(strike[Min(yielding)])

\* the price-bearing elements that are neither struck nor a promotion
Contributors(cands) ==
    { k \in 1..Len(cands) :
        /\ \/ cands[k].how \in {"class", "data"}
           \/ /\ HasCurrencyMarker(Strip(cands[k].text))
              /\ Len(Strip(cands[k].text)) < MaxPriceTextLen
        /\ ~cands[k].struck
        /\ ~is_promotional_text(Strip(cands[k].text)) }

\* P: the set of the prices of the contributors
OtherPrices(cands) ==
    { extract_price_bulletproof(Strip(cands[k].text)) : k \in Contributors(cands) }
        \ {None}

\* C14: with S the price of the first strikethrough element that yields one and
\* P the set of the prices of the other price elements, find_prices_bulletproof
\* returns (S, min P) if S exists and P is not empty, (none, S) if S exists and
\* P is empty, (max P, min P) if S is absent and P has two or more values, (none,
\* the value) if S is absent and P has one, and (none, none) if both are absent;
\* struck elements and promotions add nothing to P: the result is the same
\* without them
C14_PricePairResolution ==
    pc = "prices_done" =>
        LET S == StruckPrice(args.strike)
            P == OtherPrices(args.cands)
            kept == SelectSeq(args.cands, LAMBDA c :
                        ~c.struck /\ ~is_promotional_text(Strip(c.text)))
        IN  /\ (S # None /\ P # {}) => result = <<S, Min(P)>>
            /\ (S # None /\ P = {}) => result = <<None, S>>
            /\ (S = None /\ Cardinality(P) >= 2) => result = <<Max(P), Min(P)>>
            /\ (S = None /\ Cardinality(P) = 1) => result = <<None, Min(P)>>
            /\ (S = None /\ P = {}) => result = <<None, None>>
            /\ result = find_prices_bulletproof([args EXCEPT !.cands = kept])
            /\ \A k \in 1..Len(args.cands) :
                  (args.cands[k].struck
                      \/ is_promotional_text(Strip(args.cands[k].text)))
                  => k \notin Contributors(args.cands)

\* C14 witness: a strikethrough price of 120.00 over price elements of 89.99
\* and 59.99 has given (120.00, 59.99)
C14_Witness ==
    /\ pc = "prices_done"
    /\ StruckPrice(args.strike) = 12000
    /\ OtherPrices(args.cands) = {8999, 5999}
    /\ Len(args.cands) >= 2
    /\ args.cands[1].text = <<"$","8","9",".","9","9">>
    /\ result = <<12000, 5999>>

\* every amount the three patterns match in container_text, in range or not
RECURSIVE MatchedPrices(_, _)
MatchedPrices(container_text, n) ==
    IF n > Len(price_patterns) THEN <<>>
    ELSE LET matches == FindAll(container_text, price_patterns[n])
         IN  [k \in 1..Len(matches) |-> ToPrice(matches[k])]
               \o MatchedPrices(container_text, n + 1)

\* C15: the fallback accepts a matched price exactly when it lies in [5, 2000]:
\* the prices it keeps of an anchor are the matched ones from 5.00 to 2000.00,
\* and a document of one anchor, not skipped for its href, gives a record
\* exactly when one of its matched prices lies in that range
C15_FallbackClosedRange ==
    pc = "promotions" =>
        \A k \in 1..Len(all_links) :
            LET matched == MatchedPrices(all_links[k].parent_text, 1)
            IN  /\ FallbackPrices(all_links[k].parent_text, 1)
                      = SelectSeq(matched, InPriceRange)
                /\ (Len(all_links) = 1 /\ ~SkippedHref(all_links[k].href)) =>
                      (Len(products) = 1
                          <=> \E p \in Range(matched) : InPriceRange(p))

\* the prices the fallback found for the anchor its k-th record comes from
PricesOfRecord(k) == FallbackPrices(all_links[fb_origin[k]].parent_text, 1)

\* C16: a fallback record of an anchor with two or more prices in the parent
\* text has the minimum as Sale Price and the maximum as Original Price; with a
\* single amount, also one that more than one pattern matches, Sale Price is
\* that amount and Original Price is 'N/A'
C16_FallbackMinMaxOrSingle ==
    pc = "promotions" =>
        \A k \in 1..Len(products) :
            LET amounts == Range(PricesOfRecord(k))
            IN  /\ products[k].sale = FormatPrice(Min(amounts))
                /\ products[k].original =
                      IF Cardinality(amounts) >= 2
                      THEN FormatPrice(Max(amounts))
                      ELSE NA

\* C17: no two fallback records come from anchors with the same set of prices,
\* the record of a price set comes from the first anchor in document order that
\* has it and is not skipped for its href, and the seen-price set holds the
\* price sets of the records and nothing else: a skipped anchor adds nothing
C17_FallbackDedup ==
    /\ Len(fb_products) = Len(fb_origin)
    /\ \A j, k \in 1..Len(fb_origin) :
          j < k => Range(PricesOfRecord(j)) # Range(PricesOfRecord(k))
    /\ \A k \in 1..Len(fb_origin) :
          \A m \in 1..(fb_origin[k] - 1) :
              ~SkippedHref(all_links[m].href)
                  => Range(FallbackPrices(all_links[m].parent_text, 1))
                         # Range(PricesOfRecord(k))
    /\ seen_prices = { Sorted(PricesOfRecord(k)) : k \in 1..Len(fb_origin) }
    /\ \A k \in 1..Len(fb_origin) :
          /\ ~SkippedHref(all_links[fb_origin[k]].href)
          /\ PricesOfRecord(k) # <<>>

\* the one record of the product card, but for its discount
TrailRunnerBoot(discount) ==
    /\ Len(products) = 1
    /\ products[1].name = <<"T","r","a","i","l"," ","R","u","n","n","e","r"," ","B","o","o","t">>
    /\ products[1].original = <<"$","8","9",".","9","9">>
    /\ products[1].sale = <<"$","5","9",".","9","9">>
    /\ products[1].discount = discount
    /\ fallback_calls = 0
    /\ fb_products = <<>>

ScoredOnce(element) ==
    IF element.tag \notin {"div", "article", "li", "section", "a"} THEN 0
    ELSE (IF element.cls \cap {"product", "item", "card", "tile"} # {} THEN 3 ELSE 0)
           + (IF element.id \cap {"product", "item", "card", "tile"} # {} THEN 2 ELSE 0)
           + (IF element.data \cap {"product", "item", "card", "tile"} # {} THEN 2 ELSE 0)
           + (IF element.a_href THEN 2 ELSE 0)
           + (IF element.img THEN 1 ELSE 0)
           + (IF element.currency THEN 3 ELSE 0)
           + (IF element.long THEN 1 ELSE 0)

\* C19: the score of an element is 0 for a tag that is not eligible and else the
\* sum of +3 for a keyword in the class list, +2 for one in the id, +2 for one
\* in a data-* value, +2 for an anchor, +1 for an image, +3 for a currency
\* marker and +1 for a long text, each at most once, so never more than 14
C19_ScoreCountsEachOnce ==
    \A k \in 1..Len(scores) :
        /\ scores[k] = ScoredOnce(all_elements[k])
        /\ scores[k] <= 14

\* the anchors of links that are not skipped for their href
KeptLinks(links) ==
    { k \in 1..Len(links) :
        \A word \in {<<"c","a","r","t">>, <<"c","h","e","c","k","o","u","t">>, <<"a","c","c","o","u","n","t">>, <<"l","o","g","i","n">>, <<"j","a","v","a","s","c","r","i","p","t",":">>, <<"#">>} :
            ~Contains(Lower(links[k].href), word) }

\* C20: find_product_link never returns a URL made from an anchor whose href
\* contains cart, checkout, account, login, javascript: or #; it returns the
\* href, joined to the base URL, of the earliest of the highest scoring anchors
\* among the others, and no link when the container has no anchor with href
C20_LinkSkipsAndPicksBest ==
    pc = "link_done" =>
        LET links == args.links
            kept  == KeptLinks(links)
        IN  /\ links = <<>> => result = NoLink
            /\ \A k \in 1..Len(links) :
                  k \notin kept => result # UrlJoin(args.base_url, links[k].href)
            /\ kept # {} =>
                  \E k \in kept :
                      /\ \A m \in kept : LinkScore(links[m]) <= LinkScore(links[k])
                      /\ \A m \in kept :
                            LinkScore(links[m]) = LinkScore(links[k]) => k <= m
                      /\ result = UrlJoin(args.base_url, links[k].href)

\* C21: a container whose processing faults changes neither the output list
\* nor the set of seen name keys, so that it cannot make the loop drop a later
\* container of the same name
C21_FaultLeavesStateUntouched ==
    [][(/\ pc = "extract"
        /\ i <= Len(product_containers)
        /\ all_elements[product_containers[i]].fault # "none")
          => (products' = products /\ seen_names' = seen_names)]_vars

\* C22: scrape_website captures at most max_pages pages, and at most one when
\* auto_paginate is false; pages_scraped of the returned metadata is the number
\* of pages joined into the returned html; a page after the first is loaded
\* only after a next-page control was found, and the search that finds none
\* ends the pagination
C22_PagesBounded ==
    /\ [](/\ Len(all_html) <= args.max_pages
          /\ ~args.auto_paginate => Len(all_html) <= 1
          /\ pages_scraped = Len(all_html)
          /\ pc = "scrape_done" =>
                result.metadata.pages_scraped = Len(result.html)
          /\ (pc \in {"load", "capture", "next"} /\ page_num > 1) =>
                next_page_found)
    /\ [][(/\ pc = "next"
           /\ args.auto_paginate
           /\ page_num < args.max_pages
           /\ ~next_page_found')
             => (pc' = "combine" /\ all_html' = all_html)]_vars
    /\ [][(pc = "combine" \/ pc = "finally")
             => (all_html' = all_html /\ pages_scraped' = pages_scraped)]_vars

\* C22 witness: with max_pages 3 the call has returned two pages, the search on
\* the second having found no next-page control
C22_Witness ==
    /\ pc = "scrape_done"
    /\ args = [auto_paginate |-> TRUE, max_pages |-> 3]
    /\ result.html = <<1, 2>>
    /\ result.metadata.pages_scraped = 2
    /\ ~next_page_found
    /\ outcome = "loaded"

\* C23: a page load is attempted at most 3 times and attempted again only
\* after a timeout; after the third timeout no further page is loaded and the
\* pages captured before are returned, with metadata that has no error entry;
\* whenever the call has ended and the driver had been created, the driver has
\* been quit exactly once
C23_RetriesAndQuit ==
    /\ [](/\ attempt <= 3
          /\ quits <= 1
          /\ quits = 1 <=> driver = "quit"
          /\ pc = "scrape_done" => driver # "open"
          /\ (pc = "scrape_done" /\ outcome = "timeout") =>
                /\ attempt = 3
                /\ result = [html |-> all_html,
                             metadata |-> [pages_scraped |-> Len(all_html),
                                           error |-> FALSE]])
    /\ [][(pc = "load" /\ attempt' # attempt)
             => (attempt' = attempt + 1 /\ outcome' = "timeout")]_vars
    /\ [][(pc = "load" /\ attempt = 3 /\ outcome' = "timeout")
             => (pc' = "combine" /\ all_html' = all_html)]_vars
    /\ [][(driver = "quit") => (driver' = "quit" /\ quits' = quits)]_vars
    /\ [][(driver = "open" /\ driver' # "open")
             => (pc = "finally" /\ driver' = "quit")]_vars

\* C23 witness: the second page timed out three times, and the call has
\* returned the first page and quit the driver
C23_Witness ==
    /\ pc = "scrape_done"
    /\ page_num = 2
    /\ attempt = 3
    /\ outcome = "timeout"
    /\ result = [html |-> <<1>>,
                 metadata |-> [pages_scraped |-> 1, error |-> FALSE]]
    /\ driver = "quit"
    /\ quits = 1

=============================================================================
